---------------------------- MODULE Spec2Model ----------------------------
(***************************************************************************)
(* A model of the subway-seat-selection backend (src/backend): the         *)
(* relational store of models.py and the request handlers of main.py.      *)
(*                                                                         *)
(* Every table is a variable.  A table whose rows are referenced by id is  *)
(* a function from the ids of its rows to records of the columns the       *)
(* handlers read or write; the editor links, which nothing refers to by    *)
(* id, are a set of records.  Columns that no handler branches on (name,   *)
(* title, description, question_text, timestamps) are left out, and so is  *)
(* post_study_questions, a table no handler inserts into.  Ids come from   *)
(* per-table sequences (next_id) and are never reused.                     *)
(*                                                                         *)
(* Every handler is one action: it reads the request, changes the tables   *)
(* as the handler's committed transaction does (ORM delete cascades        *)
(* included) and leaves the HTTP reply in the variable last.  A handler    *)
(* that raises leaves the tables as they were: get_db closes the session   *)
(* without commit, which rolls the transaction back.                       *)
(***************************************************************************)
EXTENDS Integers, Sequences, FiniteSets, TLC

VARIABLES
    users,                    \* id -> [email]
    email_verifications,      \* id -> [email, token, verification_code, expires_at, used_at, verification_type]
    train_configurations,     \* id -> [height, width, tiles]
    user_responses,           \* id -> [train_configuration_id, row, col, selection_type, user_session_id, user_id, gender]
    scenario_groups,          \* id -> [created_by_user_id]
    scenario_group_editors,   \* set of [scenario_group_id, user_id]
    scenario_group_items,     \* id -> [scenario_group_id, train_configuration_id, order]
    studies,                  \* id -> [scenario_group_id, created_by_user_id]
    questions,                \* id -> [allows_free_text, allows_tags]
    post_response_questions,  \* id -> [question_id, train_configuration_id, is_required, free_text_required, order, is_default]
    pre_study_questions,      \* id -> [question_id, study_id, order]
    question_tags,            \* id -> [tag_text, created_by_user_id, is_default]
    question_tag_assignments, \* id -> [question_id, tag_id, order]
    question_responses,       \* id -> [user_response_id, post_response_question_id, free_text_response]
    question_response_tags,   \* id -> [question_response_id, tag_id]
    next_id,                  \* table name -> next value of its id sequence
    outbox,                   \* the ids of the verification records whose email was sent
    now,                      \* the clock (datetime.utcnow), in minutes
    inflight,                 \* request slot -> a create_user_response request between its lookup and its commit
    last                      \* the reply to the last request

\* The tables, grouped by the part of the application that owns them.
user_tables     == <<users, email_verifications>>
response_tables == <<train_configurations, user_responses>>
group_tables    == <<scenario_groups, scenario_group_editors, scenario_group_items>>
study_tables    == <<studies, pre_study_questions>>
question_tables == <<questions, post_response_questions, question_tags, question_tag_assignments>>
answer_tables   == <<question_responses, question_response_tags>>
tables == <<user_tables, response_tables, group_tables, study_tables, question_tables,
            answer_tables, next_id>>

\* What lies outside the store: the mails sent and the clock.
world  == <<outbox, now>>
vars   == <<tables, world, inflight, last>>

-----------------------------------------------------------------------------
(* Bounds of the model. *)

NumUsers     == 2   \* registered users
MaxConfigs   == 2   \* train configurations ever created
MaxResponses == 2   \* user responses ever inserted
NumSlots     == 2   \* create_user_response requests in flight at once
MaxGroups    == 1   \* scenario groups ever created
MaxItems     == 2   \* scenario group items ever inserted
MaxStudies   == 1   \* studies ever created
MaxPreStudyQuestions == 1   \* pre-study questions ever inserted
MaxPostResponseQuestions == 1   \* post-response questions ever added to the default ones
MaxUserTags  == 1   \* tags ever created by users
MaxAssignments == 2 \* tag assignments ever added to the default ones
MaxSharingGroups == 2   \* scenario groups ever created on one scenario
MaxVerifications == 2   \* verification records ever issued
MaxTicks     == 2   \* steps of the clock
MaxLinkStudies == 2 \* studies ever created, where one scenario or question has two
MaxLinks     == 2   \* question links ever added by requests, per table
MaxAnswers   == 3   \* answers to post-response questions ever stored
MaxCounted   == 3   \* user responses ever inserted before the statistics are read

-----------------------------------------------------------------------------
(* Values. *)

\* SQL NULL / Python None, for an id column and for a string column.
NoId   == 0
NULL   == "NULL"

\* NULL in a DateTime column: no time is negative.
NoTime == -1

\* None for an Optional[List[int]]: no list of ids holds a negative number.
NoList == <<-1>>

\* A test that every session id passes, None included.
AnySessionId(s) == TRUE

\* Python truthiness of an Optional[str]: None and "" are falsy.
Truthy(s) == s # NULL /\ s # ""

\* A table with one row added, one row replaced, one row removed.
Insert(table, id, row) == table @@ (id :> row)
Update(table, id, row) == [i \in DOMAIN table |-> IF i = id THEN row ELSE table[i]]
Delete(table, ids)     == [i \in DOMAIN table \ ids |-> table[i]]

\* The reply of a handler: the operation, the HTTP status, the credential the
\* request carried, the id in the path (or of the row returned), a second id the
\* request names, and of a request that was carried out the part of its body
\* that a property below reads.
Reply(op, status, cred, id, id2, body) ==
    [op |-> op, status |-> status, cred |-> cred, id |-> id, id2 |-> id2, body |-> body]

NoCred == [kind |-> "none", sub |-> NoId]   \* the endpoint takes no credential
NoBody == [empty |-> TRUE]


-----------------------------------------------------------------------------
(* Train configurations: main.py, create_train_configuration and            *)
(* update_train_configuration.  A tile matrix is modelled by its shape, the *)
(* sequence of its row lengths: the handlers read nothing else of it.       *)

DEFAULT_TAGS == <<"comfort", "maximizing personal space", "accessibility",
                  "convenience", "privacy", "safety", "view", "proximity to door">>

\* TrainConfigurationCreate: height and width are gt=0.
ValidTrainConfigurationCreate(config) == config.height > 0 /\ config.width > 0

\* A check of the number of rows alone.
RowsMatchHeight(config) == Len(config.tiles) = config.height

\* The handlers' dimension check: as many rows as height, every row width long.
TilesMatchDimensions(config) ==
    /\ Len(config.tiles) = config.height
    /\ \A i \in 1..Len(config.tiles) : config.tiles[i] = config.width

TagIdByText(tags, text) ==
    IF \E t \in DOMAIN tags : tags[t].tag_text = text
    THEN CHOOSE t \in DOMAIN tags : tags[t].tag_text = text
    ELSE NoId

\* get_or_create_default_tags from position i on: the tag table, the tag
\* sequence and the ids of the default tags, in the order of DEFAULT_TAGS.
RECURSIVE get_or_create_default_tags(_, _, _, _)
get_or_create_default_tags(i, tags, next, ids) ==
    IF i > Len(DEFAULT_TAGS) THEN [tags |-> tags, next |-> next, ids |-> ids]
    ELSE LET found == TagIdByText(tags, DEFAULT_TAGS[i]) IN
         IF found # NoId
         THEN get_or_create_default_tags(i + 1, tags, next, Append(ids, found))
         ELSE get_or_create_default_tags(i + 1,
                  Insert(tags, next, [tag_text |-> DEFAULT_TAGS[i],
                                      created_by_user_id |-> NoId,
                                      is_default |-> TRUE]),
                  next + 1, Append(ids, next))

create_train_configuration(config) ==
    LET reply(status, id) == Reply("create_train_configuration", status, NoCred, id, NoId, config)
        cid == next_id.train_configurations
        qid == next_id.questions
        pid == next_id.post_response_questions
        aid == next_id.question_tag_assignments
        dt  == get_or_create_default_tags(1, question_tags, next_id.question_tags, <<>>)
    IN
    IF ~ValidTrainConfigurationCreate(config)
    THEN last' = reply(422, NoId) /\ UNCHANGED <<tables, inflight, world>>
    ELSE IF ~TilesMatchDimensions(config)
    THEN last' = reply(400, NoId) /\ UNCHANGED <<tables, inflight, world>>
    ELSE
      /\ train_configurations' = Insert(train_configurations, cid,
             [height |-> config.height, width |-> config.width, tiles |-> config.tiles])
      \* the default question "Why did you choose this spot?", its link and its tags
      /\ questions' = Insert(questions, qid, [allows_free_text |-> TRUE, allows_tags |-> TRUE])
      /\ post_response_questions' = Insert(post_response_questions, pid,
             [question_id |-> qid, train_configuration_id |-> cid, is_required |-> FALSE,
              free_text_required |-> FALSE, order |-> 0, is_default |-> TRUE])
      /\ question_tags' = dt.tags
      /\ question_tag_assignments' = question_tag_assignments @@
             [a \in aid..(aid + Len(dt.ids) - 1) |->
                 [question_id |-> qid, tag_id |-> dt.ids[a - aid + 1], order |-> a - aid]]
      /\ next_id' = [next_id EXCEPT !.train_configurations = cid + 1, !.questions = qid + 1,
                                    !.post_response_questions = pid + 1, !.question_tags = dt.next,
                                    !.question_tag_assignments = aid + Len(dt.ids)]
      /\ last' = reply(201, cid)
      /\ UNCHANGED <<user_tables, user_responses, group_tables, study_tables, inflight, world,
                     answer_tables>>

\* update_train_configuration takes no credential: the handler has no
\* get_current_user dependency.
update_train_configuration(config_id, config) ==
    LET reply(status) == Reply("update_train_configuration", status, NoCred, config_id, NoId, config) IN
    IF ~ValidTrainConfigurationCreate(config)
    THEN last' = reply(422) /\ UNCHANGED <<tables, inflight, world>>
    ELSE IF config_id \notin DOMAIN train_configurations
    THEN last' = reply(404) /\ UNCHANGED <<tables, inflight, world>>
    ELSE IF ~TilesMatchDimensions(config)
    THEN last' = reply(400) /\ UNCHANGED <<tables, inflight, world>>
    ELSE
      /\ train_configurations' = Update(train_configurations, config_id,
             [height |-> config.height, width |-> config.width, tiles |-> config.tiles])
      /\ last' = reply(200)
      /\ UNCHANGED <<user_tables, user_responses, group_tables, study_tables, question_tables,
                     next_id, inflight, world, answer_tables>>

-----------------------------------------------------------------------------
(* User responses: main.py, create_user_response.  The handler runs in two  *)
(* parts around its only await on another request's data: the checks and    *)
(* the existence lookup (lines 367-395), then the update or the insert and  *)
(* its commit (lines 397-424).                                              *)

\* UserResponseCreate: row and col are ge=0.
ValidUserResponseCreate(response) == response.row >= 0 /\ response.col >= 0

\* A bounds check that looks at the row alone.
RowInBounds(response, config) == ~(response.row >= config.height)

\* The handler's bounds check (it rejects when this is false).
PositionInBounds(response, config) ==
    ~(response.row >= config.height \/ response.col >= config.width)

\* A lookup by session alone, across scenarios: what the existence query would
\* select without its train_configuration_id condition.
ExistingResponsesOfSession(rows, config_id, session_id) ==
    {id \in DOMAIN rows : rows[id].user_session_id = session_id}

\* The rows the existence query selects.
ExistingResponses(rows, config_id, session_id) ==
    {id \in DOMAIN rows : /\ rows[id].train_configuration_id = config_id
                          /\ rows[id].user_session_id = session_id}

\* What a unique constraint on (train_configuration_id, user_session_id) would
\* allow: SQL compares NULLs as distinct, so only non-null pairs collide.
UniquePerSession(rows, response) ==
    \/ response.user_session_id = NULL
    \/ ~\E id \in DOMAIN rows :
           /\ rows[id].train_configuration_id = response.train_configuration_id
           /\ rows[id].user_session_id = response.user_session_id

\* user_responses has a primary key and no other constraint: no insert is
\* refused on account of the rows already stored.
UserResponseInsertAllowed(rows, response) == TRUE

\* A lookup that takes the first of several rows, as .first() would.
LookupFirstUserResponse(response) ==
    IF ~ValidUserResponseCreate(response) THEN [status |-> 422, existing |-> NoId]
    ELSE IF response.train_configuration_id \notin DOMAIN train_configurations
    THEN [status |-> 404, existing |-> NoId]
    ELSE IF ~PositionInBounds(response, train_configurations[response.train_configuration_id])
    THEN [status |-> 400, existing |-> NoId]
    ELSE IF ~Truthy(response.user_session_id) THEN [status |-> 0, existing |-> NoId]
    ELSE LET found == ExistingResponses(user_responses, response.train_configuration_id,
                                        response.user_session_id) IN
         IF found = {} THEN [status |-> 0, existing |-> NoId]
         ELSE [status |-> 0, existing |-> CHOOSE id \in found : \A o \in found : id <= o]

\* The first part: the status the request fails with (0 when it goes on) and
\* the row the existence lookup found (NoId when none, or not looked for).
\* scalar_one_or_none raises on more than one row: an unhandled exception,
\* answered 500.
LookupUserResponse(response) ==
    IF ~ValidUserResponseCreate(response) THEN [status |-> 422, existing |-> NoId]
    ELSE IF response.train_configuration_id \notin DOMAIN train_configurations
    THEN [status |-> 404, existing |-> NoId]
    ELSE IF ~PositionInBounds(response, train_configurations[response.train_configuration_id])
    THEN [status |-> 400, existing |-> NoId]
    ELSE IF ~Truthy(response.user_session_id) THEN [status |-> 0, existing |-> NoId]
    ELSE LET found == ExistingResponses(user_responses, response.train_configuration_id,
                                        response.user_session_id) IN
         IF found = {} THEN [status |-> 0, existing |-> NoId]
         ELSE IF Cardinality(found) = 1
         THEN [status |-> 0, existing |-> CHOOSE id \in found : TRUE]
         ELSE [status |-> 500, existing |-> NoId]

\* The second part: the update in place of the row found (user_id and
\* user_session_id are not written), or the insert of a new row.
StoreUserResponse(response, existing) ==
    IF existing # NoId
    THEN /\ user_responses' = Update(user_responses, existing,
                [user_responses[existing] EXCEPT !.row = response.row,
                                                 !.col = response.col,
                                                 !.selection_type = response.selection_type,
                                                 !.gender = response.gender])
         /\ UNCHANGED next_id
         /\ last' = Reply("create_user_response", 201, NoCred, existing, NoId, response)
    ELSE IF UserResponseInsertAllowed(user_responses, response)
    THEN /\ user_responses' = Insert(user_responses, next_id.user_responses, response)
         /\ next_id' = [next_id EXCEPT !.user_responses = @ + 1]
         /\ last' = Reply("create_user_response", 201, NoCred, next_id.user_responses, NoId, response)
    ELSE /\ UNCHANGED <<user_responses, next_id>>
         /\ last' = Reply("create_user_response", 500, NoCred, NoId, NoId, NoBody)

\* A request served with no other request in between.
create_user_response(response) ==
    LET looked == LookupUserResponse(response) IN
    /\ UNCHANGED <<user_tables, train_configurations, group_tables, study_tables, question_tables,
                   inflight, world, answer_tables>>
    /\ IF looked.status # 0
       THEN /\ last' = Reply("create_user_response", looked.status, NoCred, NoId, NoId, response)
            /\ UNCHANGED <<user_responses, next_id>>
       ELSE StoreUserResponse(response, looked.existing)

\* Requests served concurrently: a free slot p runs the first part (a request
\* the first part answers is "rejected") ...
create_user_response_lookup(p, response) ==
    LET looked == LookupUserResponse(response) IN
    /\ inflight[p].pc # "looked"
    /\ UNCHANGED <<tables, world>>
    /\ IF looked.status # 0
       THEN /\ last' = Reply("create_user_response", looked.status, NoCred, NoId, NoId, response)
            /\ inflight' = [inflight EXCEPT ![p] =
                   [pc |-> "rejected", response |-> response, existing |-> NoId,
                    status |-> looked.status, stored |-> NoId]]
       ELSE /\ UNCHANGED last
            /\ inflight' = [inflight EXCEPT ![p] =
                   [pc |-> "looked", response |-> response, existing |-> looked.existing,
                    status |-> 0, stored |-> NoId]]

\* ... and later the second part, on what its lookup found.
create_user_response_store(p) ==
    /\ inflight[p].pc = "looked"
    /\ StoreUserResponse(inflight[p].response, inflight[p].existing)
    /\ inflight' = [inflight EXCEPT ![p].pc = "done", ![p].status = last'.status,
                                    ![p].stored = last'.id]
    /\ UNCHANGED <<user_tables, train_configurations, group_tables, study_tables, question_tables,
                   world, answer_tables>>

-----------------------------------------------------------------------------
(* Authentication: middleware/auth.py, get_current_user, and utils/auth.py, *)
(* verify_token.  A credential is the session_token cookie: absent, a       *)
(* string that is no token signed with the server's key ("invalid"), a      *)
(* signed token past its exp ("expired"), or a signed, unexpired token; a   *)
(* signed token carries the id of the user it was issued to in sub.         *)

\* A request answered without a commit: an error, or a read.
Answer(op, status, cred, id, id2, body) ==
    /\ last' = Reply(op, status, cred, id, id2, body)
    /\ UNCHANGED <<tables, inflight, world>>

Refuse(op, status, cred, id, id2) == Answer(op, status, cred, id, id2, NoBody)

\* jwt.decode without its checks of signature and expiry: the sub of whatever
\* the cookie holds.
verify_token_unchecked(cred) == cred.sub

\* verify_token: the payload's sub, or NoId for None (jwt.decode raised).
verify_token(cred) == IF cred.kind = "token" THEN cred.sub ELSE NoId

\* get_current_user: the id of the current user, or NoId where it raises 401.
get_current_user(cred) ==
    IF cred.kind = "absent" THEN NoId
    ELSE LET user_id == verify_token(cred) IN
         IF user_id = NoId THEN NoId
         ELSE IF user_id \notin DOMAIN users THEN NoId
         ELSE user_id

\* GET /auth/me
get_current_user_info(cred) ==
    LET op == "get_current_user_info" IN
    IF get_current_user(cred) = NoId THEN Refuse(op, 401, cred, NoId, NoId)
    ELSE Refuse(op, 200, cred, NoId, NoId)

-----------------------------------------------------------------------------
(* Scenario groups: main.py, create_scenario_group to                       *)
(* delete_scenario_group_item.                                              *)

\* A creator check that an editor link satisfies as well.
IsCreatorOrEditor(group_id, user_id) ==
    \/ scenario_groups[group_id].created_by_user_id = user_id
    \/ [scenario_group_id |-> group_id, user_id |-> user_id] \in scenario_group_editors

\* An access check that lets every authenticated user through.
AnyUser(group_id, user_id) == TRUE

\* group.created_by_user_id == current_user.id
IsCreator(group_id, user_id) == scenario_groups[group_id].created_by_user_id = user_id

\* The editor-link query: a row of scenario_group_editors for (group, user).
IsEditor(group_id, user_id) ==
    [scenario_group_id |-> group_id, user_id |-> user_id] \in scenario_group_editors

\* A delete of the group that reaches none of its items.
NoItemsOfGroup(group_id) == {}

\* is_creator or is_editor
HasGroupAccess(group_id, user_id) == IsCreator(group_id, user_id) \/ IsEditor(group_id, user_id)

ItemsOfGroup(group_id) ==
    {i \in DOMAIN scenario_group_items : scenario_group_items[i].scenario_group_id = group_id}

StudiesOfGroup(group_id) == {st \in DOMAIN studies : studies[st].scenario_group_id = group_id}

\* items is the sequence of ScenarioGroupItemCreate the request carries.
create_scenario_group(cred, items) ==
    LET op == "create_scenario_group"
        user == get_current_user(cred)
        gid == next_id.scenario_groups
        first == next_id.scenario_group_items
        body == [items |-> items]
    IN
    IF user = NoId THEN Answer(op, 401, cred, NoId, NoId, body)
    ELSE IF \E k \in 1..Len(items) : items[k].train_configuration_id \notin DOMAIN train_configurations
    THEN Answer(op, 404, cred, NoId, NoId, body)
    ELSE
      /\ scenario_groups' = Insert(scenario_groups, gid, [created_by_user_id |-> user])
      /\ scenario_group_items' = scenario_group_items @@
             [i \in first..(first + Len(items) - 1) |->
                 [scenario_group_id |-> gid,
                  train_configuration_id |-> items[i - first + 1].train_configuration_id,
                  order |-> items[i - first + 1].order]]
      /\ next_id' = [next_id EXCEPT !.scenario_groups = gid + 1,
                                    !.scenario_group_items = first + Len(items)]
      /\ last' = Reply(op, 201, cred, gid, NoId, body)
      /\ UNCHANGED <<user_tables, response_tables, scenario_group_editors, study_tables,
                     question_tables, inflight, world, answer_tables>>

\* delete_scenario_group with the cascade stopped at the studies the caller
\* did not create.
delete_scenario_group_own_studies(cred, group_id) ==
    LET op == "delete_scenario_group"
        user == get_current_user(cred)
        own == {st \in StudiesOfGroup(group_id) : studies[st].created_by_user_id = user}
    IN
    IF user = NoId THEN Refuse(op, 401, cred, group_id, NoId)
    ELSE IF group_id \notin DOMAIN scenario_groups THEN Refuse(op, 404, cred, group_id, NoId)
    ELSE IF ~IsCreator(group_id, user) THEN Refuse(op, 403, cred, group_id, NoId)
    ELSE
      /\ scenario_groups' = Delete(scenario_groups, {group_id})
      /\ scenario_group_items' = Delete(scenario_group_items, ItemsOfGroup(group_id))
      /\ scenario_group_editors' =
             {e \in scenario_group_editors : e.scenario_group_id # group_id}
      /\ studies' = Delete(studies, own)
      /\ pre_study_questions' = Delete(pre_study_questions,
             {q \in DOMAIN pre_study_questions : pre_study_questions[q].study_id \in own})
      /\ last' = Reply(op, 204, cred, group_id, NoId, NoBody)
      /\ UNCHANGED <<user_tables, response_tables, question_tables, next_id, inflight, world,
                     answer_tables>>

\* db.delete(group) cascades to the group's items, editor links and studies,
\* and from the studies to their pre-study questions.
delete_scenario_group(cred, group_id) ==
    LET op == "delete_scenario_group"
        user == get_current_user(cred)
    IN
    IF user = NoId THEN Refuse(op, 401, cred, group_id, NoId)
    ELSE IF group_id \notin DOMAIN scenario_groups THEN Refuse(op, 404, cred, group_id, NoId)
    ELSE IF ~IsCreator(group_id, user) THEN Refuse(op, 403, cred, group_id, NoId)
    ELSE
      /\ scenario_groups' = Delete(scenario_groups, {group_id})
      /\ scenario_group_items' = Delete(scenario_group_items, ItemsOfGroup(group_id))
      /\ scenario_group_editors' =
             {e \in scenario_group_editors : e.scenario_group_id # group_id}
      /\ studies' = Delete(studies, StudiesOfGroup(group_id))
      /\ pre_study_questions' = Delete(pre_study_questions,
             {q \in DOMAIN pre_study_questions :
                 pre_study_questions[q].study_id \in StudiesOfGroup(group_id)})
      /\ last' = Reply(op, 204, cred, group_id, NoId, NoBody)
      /\ UNCHANGED <<user_tables, response_tables, question_tables, next_id, inflight, world,
                     answer_tables>>

\* add_scenario_group_editor with the lookup of the user moved before the
\* check of the caller.
add_scenario_group_editor_user_first(cred, group_id, user_id) ==
    LET op == "add_scenario_group_editor"
        user == get_current_user(cred)
    IN
    IF user = NoId THEN Refuse(op, 401, cred, group_id, user_id)
    ELSE IF group_id \notin DOMAIN scenario_groups THEN Refuse(op, 404, cred, group_id, user_id)
    ELSE IF user_id \notin DOMAIN users THEN Refuse(op, 404, cred, group_id, user_id)
    ELSE IF ~IsCreator(group_id, user) THEN Refuse(op, 403, cred, group_id, user_id)
    ELSE IF IsEditor(group_id, user_id) THEN Refuse(op, 400, cred, group_id, user_id)
    ELSE
      /\ scenario_group_editors' = scenario_group_editors \cup
             {[scenario_group_id |-> group_id, user_id |-> user_id]}
      /\ last' = Reply(op, 201, cred, group_id, user_id, NoBody)
      /\ UNCHANGED <<user_tables, response_tables, scenario_groups, scenario_group_items,
                     study_tables, question_tables, next_id, inflight, world,
                     answer_tables>>

add_scenario_group_editor(cred, group_id, user_id) ==
    LET op == "add_scenario_group_editor"
        user == get_current_user(cred)
    IN
    IF user = NoId THEN Refuse(op, 401, cred, group_id, user_id)
    ELSE IF group_id \notin DOMAIN scenario_groups THEN Refuse(op, 404, cred, group_id, user_id)
    ELSE IF ~IsCreator(group_id, user) THEN Refuse(op, 403, cred, group_id, user_id)
    ELSE IF user_id \notin DOMAIN users THEN Refuse(op, 404, cred, group_id, user_id)
    ELSE IF IsEditor(group_id, user_id) THEN Refuse(op, 400, cred, group_id, user_id)
    ELSE
      /\ scenario_group_editors' = scenario_group_editors \cup
             {[scenario_group_id |-> group_id, user_id |-> user_id]}
      /\ last' = Reply(op, 201, cred, group_id, user_id, NoBody)
      /\ UNCHANGED <<user_tables, response_tables, scenario_groups, scenario_group_items,
                     study_tables, question_tables, next_id, inflight, world,
                     answer_tables>>

remove_scenario_group_editor(cred, group_id, user_id) ==
    LET op == "remove_scenario_group_editor"
        user == get_current_user(cred)
    IN
    IF user = NoId THEN Refuse(op, 401, cred, group_id, user_id)
    ELSE IF group_id \notin DOMAIN scenario_groups THEN Refuse(op, 404, cred, group_id, user_id)
    ELSE IF ~IsCreator(group_id, user) THEN Refuse(op, 403, cred, group_id, user_id)
    ELSE IF ~IsEditor(group_id, user_id) THEN Refuse(op, 404, cred, group_id, user_id)
    ELSE
      /\ scenario_group_editors' = scenario_group_editors \
             {[scenario_group_id |-> group_id, user_id |-> user_id]}
      /\ last' = Reply(op, 204, cred, group_id, user_id, NoBody)
      /\ UNCHANGED <<user_tables, response_tables, scenario_groups, scenario_group_items,
                     study_tables, question_tables, next_id, inflight, world,
                     answer_tables>>

\* The endpoints on scenario groups that change no table.  ScenarioGroupUpdate
\* has no field: update_scenario_group commits nothing.
list_scenario_groups(cred) ==
    LET op == "list_scenario_groups" IN
    IF get_current_user(cred) = NoId THEN Refuse(op, 401, cred, NoId, NoId)
    ELSE Refuse(op, 200, cred, NoId, NoId)

get_scenario_group(cred, group_id) ==
    LET op == "get_scenario_group"
        user == get_current_user(cred)
    IN
    IF user = NoId THEN Refuse(op, 401, cred, group_id, NoId)
    ELSE IF group_id \notin DOMAIN scenario_groups THEN Refuse(op, 404, cred, group_id, NoId)
    ELSE IF ~HasGroupAccess(group_id, user) THEN Refuse(op, 403, cred, group_id, NoId)
    ELSE Refuse(op, 200, cred, group_id, NoId)

update_scenario_group(cred, group_id) ==
    LET op == "update_scenario_group"
        user == get_current_user(cred)
    IN
    IF user = NoId THEN Refuse(op, 401, cred, group_id, NoId)
    ELSE IF group_id \notin DOMAIN scenario_groups THEN Refuse(op, 404, cred, group_id, NoId)
    ELSE IF ~HasGroupAccess(group_id, user) THEN Refuse(op, 403, cred, group_id, NoId)
    ELSE Refuse(op, 200, cred, group_id, NoId)

list_scenario_group_editors(cred, group_id) ==
    LET op == "list_scenario_group_editors"
        user == get_current_user(cred)
    IN
    IF user = NoId THEN Refuse(op, 401, cred, group_id, NoId)
    ELSE IF group_id \notin DOMAIN scenario_groups THEN Refuse(op, 404, cred, group_id, NoId)
    ELSE IF ~HasGroupAccess(group_id, user) THEN Refuse(op, 403, cred, group_id, NoId)
    ELSE Refuse(op, 200, cred, group_id, NoId)

\* item is a ScenarioGroupItemCreate (order >= 0).  The handler also touches
\* updated_at of the group's studies, a column the model leaves out.
add_scenario_group_item(cred, group_id, item) ==
    LET op == "add_scenario_group_item"
        user == get_current_user(cred)
        id == next_id.scenario_group_items
    IN
    IF user = NoId THEN Refuse(op, 401, cred, group_id, item.train_configuration_id)
    ELSE IF group_id \notin DOMAIN scenario_groups
    THEN Refuse(op, 404, cred, group_id, item.train_configuration_id)
    ELSE IF ~HasGroupAccess(group_id, user)
    THEN Refuse(op, 403, cred, group_id, item.train_configuration_id)
    ELSE IF item.train_configuration_id \notin DOMAIN train_configurations
    THEN Refuse(op, 404, cred, group_id, item.train_configuration_id)
    ELSE
      /\ scenario_group_items' = Insert(scenario_group_items, id,
             [scenario_group_id |-> group_id,
              train_configuration_id |-> item.train_configuration_id, order |-> item.order])
      /\ next_id' = [next_id EXCEPT !.scenario_group_items = id + 1]
      /\ last' = Reply(op, 201, cred, group_id, item.train_configuration_id, NoBody)
      /\ UNCHANGED <<user_tables, response_tables, scenario_groups, scenario_group_editors,
                     study_tables, question_tables, inflight, world, answer_tables>>

update_scenario_group_item(cred, group_id, item_id, item_update) ==
    LET op == "update_scenario_group_item"
        user == get_current_user(cred)
    IN
    IF user = NoId THEN Answer(op, 401, cred, group_id, item_id, item_update)
    ELSE IF group_id \notin DOMAIN scenario_groups THEN Answer(op, 404, cred, group_id, item_id, item_update)
    ELSE IF ~HasGroupAccess(group_id, user) THEN Answer(op, 403, cred, group_id, item_id, item_update)
    ELSE IF item_id \notin ItemsOfGroup(group_id) THEN Answer(op, 404, cred, group_id, item_id, item_update)
    ELSE IF /\ item_update.train_configuration_id #
                  scenario_group_items[item_id].train_configuration_id
            /\ item_update.train_configuration_id \notin DOMAIN train_configurations
    THEN Answer(op, 404, cred, group_id, item_id, item_update)
    ELSE
      /\ scenario_group_items' = Update(scenario_group_items, item_id,
             [scenario_group_items[item_id] EXCEPT
                 !.train_configuration_id = item_update.train_configuration_id,
                 !.order = item_update.order])
      /\ last' = Reply(op, 200, cred, group_id, item_id, item_update)
      /\ UNCHANGED <<user_tables, response_tables, scenario_groups, scenario_group_editors,
                     study_tables, question_tables, next_id, inflight, world,
                     answer_tables>>

delete_scenario_group_item(cred, group_id, item_id) ==
    LET op == "delete_scenario_group_item"
        user == get_current_user(cred)
    IN
    IF user = NoId THEN Refuse(op, 401, cred, group_id, item_id)
    ELSE IF group_id \notin DOMAIN scenario_groups THEN Refuse(op, 404, cred, group_id, item_id)
    ELSE IF ~HasGroupAccess(group_id, user) THEN Refuse(op, 403, cred, group_id, item_id)
    ELSE IF item_id \notin ItemsOfGroup(group_id) THEN Refuse(op, 404, cred, group_id, item_id)
    ELSE
      /\ scenario_group_items' = Delete(scenario_group_items, {item_id})
      /\ last' = Reply(op, 204, cred, group_id, item_id, NoBody)
      /\ UNCHANGED <<user_tables, response_tables, scenario_groups, scenario_group_editors,
                     study_tables, question_tables, next_id, inflight, world,
                     answer_tables>>

-----------------------------------------------------------------------------
(* Studies: main.py, create_study to delete_study.  Title, description and  *)
(* email are left out: no handler branches on them.                         *)

\* A study check that the study's scenario group's creator and editors pass
\* as well.
IsStudyCreatorOrGroupMember(study_id, user_id) ==
    \/ studies[study_id].created_by_user_id = user_id
    \/ IsCreatorOrEditor(studies[study_id].scenario_group_id, user_id)

\* study.created_by_user_id == current_user.id
IsStudyCreator(study_id, user_id) == studies[study_id].created_by_user_id = user_id

PreStudyQuestionsOfStudy(study_id) ==
    {q \in DOMAIN pre_study_questions : pre_study_questions[q].study_id = study_id}

create_study(cred, scenario_group_id) ==
    LET op == "create_study"
        user == get_current_user(cred)
        id == next_id.studies
    IN
    IF user = NoId THEN Refuse(op, 401, cred, NoId, scenario_group_id)
    ELSE IF scenario_group_id \notin DOMAIN scenario_groups
    THEN Refuse(op, 404, cred, NoId, scenario_group_id)
    ELSE IF ~HasGroupAccess(scenario_group_id, user)
    THEN Refuse(op, 403, cred, NoId, scenario_group_id)
    ELSE
      /\ studies' = Insert(studies, id,
             [scenario_group_id |-> scenario_group_id, created_by_user_id |-> user])
      /\ next_id' = [next_id EXCEPT !.studies = id + 1]
      /\ last' = Reply(op, 201, cred, id, scenario_group_id, NoBody)
      /\ UNCHANGED <<user_tables, response_tables, group_tables, pre_study_questions,
                     question_tables, inflight, world, answer_tables>>

\* The studies the current user created.
list_studies(cred) ==
    LET op == "list_studies"
        user == get_current_user(cred)
    IN
    IF user = NoId THEN Refuse(op, 401, cred, NoId, NoId)
    ELSE Answer(op, 200, cred, NoId, NoId,
                [ids |-> {st \in DOMAIN studies : studies[st].created_by_user_id = user}])

get_study(cred, study_id) ==
    LET op == "get_study"
        user == get_current_user(cred)
    IN
    IF user = NoId THEN Refuse(op, 401, cred, study_id, NoId)
    ELSE IF study_id \notin DOMAIN studies THEN Refuse(op, 404, cred, study_id, NoId)
    ELSE IF ~IsStudyCreator(study_id, user) THEN Refuse(op, 403, cred, study_id, NoId)
    ELSE Refuse(op, 200, cred, study_id, NoId)

\* scenario_group_id is the new group of the StudyUpdate, NoId for None.
update_study(cred, study_id, scenario_group_id) ==
    LET op == "update_study"
        user == get_current_user(cred)
    IN
    IF user = NoId THEN Refuse(op, 401, cred, study_id, scenario_group_id)
    ELSE IF study_id \notin DOMAIN studies THEN Refuse(op, 404, cred, study_id, scenario_group_id)
    ELSE IF ~IsStudyCreator(study_id, user) THEN Refuse(op, 403, cred, study_id, scenario_group_id)
    ELSE IF scenario_group_id = NoId
    THEN Refuse(op, 200, cred, study_id, scenario_group_id)
    ELSE IF scenario_group_id \notin DOMAIN scenario_groups
    THEN Refuse(op, 404, cred, study_id, scenario_group_id)
    ELSE IF ~HasGroupAccess(scenario_group_id, user)
    THEN Refuse(op, 403, cred, study_id, scenario_group_id)
    ELSE
      /\ studies' = Update(studies, study_id,
             [studies[study_id] EXCEPT !.scenario_group_id = scenario_group_id])
      /\ last' = Reply(op, 200, cred, study_id, scenario_group_id, NoBody)
      /\ UNCHANGED <<user_tables, response_tables, group_tables, pre_study_questions,
                     question_tables, next_id, inflight, world, answer_tables>>

\* db.delete(study) cascades to the study's pre-study questions.
delete_study(cred, study_id) ==
    LET op == "delete_study"
        user == get_current_user(cred)
    IN
    IF user = NoId THEN Refuse(op, 401, cred, study_id, NoId)
    ELSE IF study_id \notin DOMAIN studies THEN Refuse(op, 404, cred, study_id, NoId)
    ELSE IF ~IsStudyCreator(study_id, user) THEN Refuse(op, 403, cred, study_id, NoId)
    ELSE
      /\ studies' = Delete(studies, {study_id})
      /\ pre_study_questions' = Delete(pre_study_questions, PreStudyQuestionsOfStudy(study_id))
      /\ last' = Reply(op, 204, cred, study_id, NoId, NoBody)
      /\ UNCHANGED <<user_tables, response_tables, group_tables, question_tables, next_id, inflight, world,
                     answer_tables>>

-----------------------------------------------------------------------------
(* Questions and tags: main.py, create_post_response_question to            *)
(* create_question_tag.  A list of tag ids is a sequence; None is NoList.     *)

Elems(L) == {L[i] : i \in 1..Len(L)}

\* L.index(t): the 0-based position of the first t in L.
Index(L, t) == (CHOOSE i \in 1..Len(L) : L[i] = t /\ \A j \in 1..(i - 1) : L[j] # t) - 1

\* The 0-based position of the last t in L.
LastIndex(L, t) == (CHOOSE i \in 1..Len(L) : L[i] = t /\ \A j \in (i + 1)..Len(L) : L[j] # t) - 1

\* Python truthiness of question_text; blank also covers what strip() empties.
Blank(text) == text \in {NULL, "", " "}

AssignmentsOfQuestion(rows, question_id) ==
    {a \in DOMAIN rows : rows[a].question_id = question_id}

TagsOfQuestion(rows, question_id) ==
    {rows[a].tag_id : a \in AssignmentsOfQuestion(rows, question_id)}

\* The positions of L whose tag both loops of a handler add: a tag not yet
\* assigned in the rows the handler read, and stored in the tag library.
PositionsToAdd(rows, question_id, L) ==
    {i \in 1..Len(L) : /\ L[i] \notin TagsOfQuestion(rows, question_id)
                       /\ L[i] \in DOMAIN question_tags}

\* The commit of the added rows fails on uq_question_tag_assignment when two
\* of them carry the same tag.
AddsAreUnique(L, adds) == \A i, j \in adds : L[i] = L[j] => i = j

\* The rows added at the positions adds, numbered in the order of the adds,
\* each with the order the handler computes for its position (order[i]).
AddedAssignments(next, question_id, L, adds, order) ==
    [a \in next..(next + Cardinality(adds) - 1) |->
        LET i == CHOOSE k \in adds : Cardinality({j \in adds : j < k}) = a - next IN
        [question_id |-> question_id, tag_id |-> L[i], order |-> order[i]]]

\* The tag ids of the rows a handler hands to db.add, in the order of the adds.
Added(L, adds) ==
    [k \in 1..Cardinality(adds) |->
        L[CHOOSE i \in adds : Cardinality({j \in adds : j < i}) = k - 1]]

\* A reconciliation that numbers positions from 1.
ReconcileFromOne(rows, next, question_id, L) ==
    LET current == AssignmentsOfQuestion(rows, question_id)
        removed == {a \in current : rows[a].tag_id \notin Elems(L)}
        adds    == PositionsToAdd(rows, question_id, L)
        order == [i \in 1..Len(L) |-> i]
    IN [ok |-> AddsAreUnique(L, adds),
        rows |-> [a \in DOMAIN rows \ removed |->
                     IF a \in current THEN [rows[a] EXCEPT !.order = Index(L, rows[a].tag_id) + 1]
                     ELSE rows[a]]
                 @@ AddedAssignments(next, question_id, L, adds, order),
        next |-> next + Cardinality(adds)]

\* update_post_response_question, lines 2305-2343: the assignments of the
\* question after the desired list L is applied; a kept row takes the
\* position of the first occurrence of its tag.
ReconcilePostResponseTags(rows, next, question_id, L) ==
    LET current == AssignmentsOfQuestion(rows, question_id)
        removed == {a \in current : rows[a].tag_id \notin Elems(L)}
        adds    == PositionsToAdd(rows, question_id, L)
        order == [i \in 1..Len(L) |-> i - 1]
    IN [ok |-> AddsAreUnique(L, adds),
        rows |-> [a \in DOMAIN rows \ removed |->
                     IF a \in current THEN [rows[a] EXCEPT !.order = Index(L, rows[a].tag_id)]
                     ELSE rows[a]]
                 @@ AddedAssignments(next, question_id, L, adds, order),
        next |-> next + Cardinality(adds)]

\* update_pre_study_question, lines 1886-1925: one loop over L adds or
\* rewrites, so a kept row ends with the position of the last occurrence.
ReconcilePreStudyTags(rows, next, question_id, L) ==
    LET current == AssignmentsOfQuestion(rows, question_id)
        removed == {a \in current : rows[a].tag_id \notin Elems(L)}
        adds    == PositionsToAdd(rows, question_id, L)
        order == [i \in 1..Len(L) |-> i - 1]
    IN [ok |-> AddsAreUnique(L, adds),
        rows |-> [a \in DOMAIN rows \ removed |->
                     IF a \in current THEN [rows[a] EXCEPT !.order = LastIndex(L, rows[a].tag_id)]
                     ELSE rows[a]]
                 @@ AddedAssignments(next, question_id, L, adds, order),
        next |-> next + Cardinality(adds)]

get_tag_library(cred) ==
    LET op == "get_tag_library" IN
    IF get_current_user(cred) = NoId THEN Refuse(op, 401, cred, NoId, NoId)
    ELSE Refuse(op, 200, cred, NoId, NoId)

\* tag_data is a QuestionTagCreate.
create_question_tag(cred, tag_data) ==
    LET op == "create_question_tag"
        user == get_current_user(cred)
        id == next_id.question_tags
    IN
    IF user = NoId THEN Refuse(op, 401, cred, NoId, NoId)
    ELSE IF TagIdByText(question_tags, tag_data.tag_text) # NoId
    THEN Refuse(op, 400, cred, NoId, NoId)
    ELSE IF tag_data.is_default THEN Refuse(op, 403, cred, NoId, NoId)
    ELSE
      /\ question_tags' = Insert(question_tags, id,
             [tag_text |-> tag_data.tag_text, created_by_user_id |-> user, is_default |-> FALSE])
      /\ next_id' = [next_id EXCEPT !.question_tags = id + 1]
      /\ last' = Reply(op, 201, cred, id, NoId, NoBody)
      /\ UNCHANGED <<user_tables, response_tables, group_tables, study_tables, questions,
                     post_response_questions, question_tag_assignments, inflight, world,
                     answer_tables>>

\* The studies the scenario-in-study query selects: those bound to a group
\* that has the scenario among its items.  scalar_one_or_none raises on more
\* than one.
StudiesOfScenario(config_id) ==
    {st \in DOMAIN studies :
        \E i \in DOMAIN scenario_group_items :
            /\ scenario_group_items[i].train_configuration_id = config_id
            /\ scenario_group_items[i].scenario_group_id = studies[st].scenario_group_id}

\* A table without a constraint on its (question, scenario) pairs.
NeverAttached(question_id, config_id) == FALSE

\* uq_post_response_question: a link of the question to the scenario is
\* stored, and the flush of a second one raises.
AttachedToScenario(question_id, config_id) ==
    \E p \in DOMAIN post_response_questions :
        /\ post_response_questions[p].question_id = question_id
        /\ post_response_questions[p].train_configuration_id = config_id

\* question_data is a PostResponseQuestionCreate; question_id NoId is None.
\* The handler's check for an assignment already stored does not see the rows
\* the request has added and not yet flushed (the session has autoflush off),
\* so a tag listed twice is added twice and the commit fails.
create_post_response_question(cred, config_id, question_data) ==
    LET op == "create_post_response_question"
        user == get_current_user(cred)
        linked == question_data.question_id # NoId
        qid == IF linked THEN question_data.question_id ELSE next_id.questions
        pid == next_id.post_response_questions
        L == IF question_data.tag_ids = NoList THEN <<>> ELSE question_data.tag_ids
        adds == PositionsToAdd(question_tag_assignments, qid, L)
        order == [i \in 1..Len(L) |-> Len(L) - Index(L, L[i])]
        body(added) == [question_id |-> question_data.question_id,
                        is_required |-> question_data.is_required,
                        free_text_required |-> question_data.free_text_required,
                        tag_ids |-> question_data.tag_ids, added |-> added]
    IN
    IF user = NoId THEN Answer(op, 401, cred, config_id, NoId, body(<<>>))
    ELSE IF config_id \notin DOMAIN train_configurations THEN Answer(op, 404, cred, config_id, NoId, body(<<>>))
    ELSE IF Cardinality(StudiesOfScenario(config_id)) > 1 THEN Answer(op, 500, cred, config_id, NoId, body(<<>>))
    ELSE IF /\ question_data.is_required \/ question_data.free_text_required
            /\ StudiesOfScenario(config_id) = {}
    THEN Answer(op, 400, cred, config_id, NoId, body(<<>>))
    ELSE IF linked /\ qid \notin DOMAIN questions THEN Answer(op, 404, cred, config_id, NoId, body(<<>>))
    ELSE IF ~linked /\ question_data.question_text \in {NULL, ""}
    THEN Answer(op, 400, cred, config_id, NoId, body(<<>>))
    \* uq_post_response_question, at the flush of the new link
    ELSE IF AttachedToScenario(qid, config_id)
    THEN Answer(op, 500, cred, config_id, NoId, body(<<>>))
    ELSE IF ~AddsAreUnique(L, adds) THEN Answer(op, 500, cred, config_id, NoId, body(Added(L, adds)))
    ELSE
      /\ questions' = IF linked THEN questions
                      ELSE Insert(questions, qid,
                               [allows_free_text |-> question_data.allows_free_text,
                                allows_tags |-> question_data.allows_tags])
      /\ post_response_questions' = Insert(post_response_questions, pid,
             [question_id |-> qid, train_configuration_id |-> config_id,
              is_required |-> question_data.is_required,
              free_text_required |-> question_data.free_text_required,
              order |-> question_data.order, is_default |-> FALSE])
      /\ question_tag_assignments' = question_tag_assignments @@
             AddedAssignments(next_id.question_tag_assignments, qid, L, adds, order)
      /\ next_id' = [next_id EXCEPT
             !.questions = IF linked THEN @ ELSE @ + 1,
             !.post_response_questions = pid + 1,
             !.question_tag_assignments = @ + Cardinality(adds)]
      /\ last' = Reply(op, 201, cred, config_id, pid, body(Added(L, adds)))
      /\ UNCHANGED <<user_tables, response_tables, group_tables, study_tables, question_tags, inflight, world,
                     answer_tables>>

update_post_response_question(cred, config_id, post_response_question_id, question_data) ==
    LET op == "update_post_response_question"
        user == get_current_user(cred)
        pid == post_response_question_id
        qid == post_response_questions[pid].question_id
        rec == IF question_data.tag_ids = NoList
               THEN [ok |-> TRUE, rows |-> question_tag_assignments,
                     next |-> next_id.question_tag_assignments]
               ELSE ReconcilePostResponseTags(question_tag_assignments,
                        next_id.question_tag_assignments, qid, question_data.tag_ids)
        L == IF question_data.tag_ids = NoList THEN <<>> ELSE question_data.tag_ids
        body(added) == [is_required |-> question_data.is_required,
                        free_text_required |-> question_data.free_text_required,
                        tag_ids |-> question_data.tag_ids, added |-> added]
        added == Added(L, PositionsToAdd(question_tag_assignments, qid, L))
    IN
    IF user = NoId THEN Answer(op, 401, cred, config_id, pid, body(<<>>))
    ELSE IF \/ pid \notin DOMAIN post_response_questions
            \/ post_response_questions[pid].train_configuration_id # config_id
    THEN Answer(op, 404, cred, config_id, pid, body(<<>>))
    ELSE IF Cardinality(StudiesOfScenario(config_id)) > 1 THEN Answer(op, 500, cred, config_id, pid, body(<<>>))
    ELSE IF /\ question_data.is_required \/ question_data.free_text_required
            /\ StudiesOfScenario(config_id) = {}
    THEN Answer(op, 400, cred, config_id, pid, body(<<>>))
    ELSE IF ~rec.ok THEN Answer(op, 500, cred, config_id, pid, body(added))
    ELSE
      /\ questions' = IF post_response_questions[pid].is_default THEN questions
                      ELSE Update(questions, qid,
                               [questions[qid] EXCEPT
                                   !.allows_free_text = question_data.allows_free_text,
                                   !.allows_tags = question_data.allows_tags])
      /\ post_response_questions' = Update(post_response_questions, pid,
             [post_response_questions[pid] EXCEPT
                 !.is_required = question_data.is_required,
                 !.free_text_required = question_data.free_text_required,
                 !.order = question_data.order])
      /\ question_tag_assignments' = rec.rows
      /\ next_id' = [next_id EXCEPT !.question_tag_assignments = rec.next]
      /\ last' = Reply(op, 200, cred, config_id, pid, body(added))
      /\ UNCHANGED <<user_tables, response_tables, group_tables, study_tables, question_tags, inflight, world,
                     answer_tables>>

\* The links of a question other than the post-response question pid.
OtherPostResponseQuestions(question_id, pid) ==
    {p \in DOMAIN post_response_questions :
        post_response_questions[p].question_id = question_id /\ p # pid}

\* The answers to a post-response question, and the selected tags of answers.
AnswersOfLink(pid) ==
    {r \in DOMAIN question_responses : question_responses[r].post_response_question_id = pid}

SelectedTagsOfAnswers(answers) ==
    {t \in DOMAIN question_response_tags :
        question_response_tags[t].question_response_id \in answers}

\* db.delete(question) cascades to every link of the question, the pre-study
\* questions included, and to its tag assignments; the delete of the link
\* cascades to its answers and their selected tags.
delete_post_response_question(cred, config_id, post_response_question_id) ==
    LET op == "delete_post_response_question"
        user == get_current_user(cred)
        pid == post_response_question_id
        qid == post_response_questions[pid].question_id
    IN
    IF user = NoId THEN Refuse(op, 401, cred, config_id, pid)
    ELSE IF \/ pid \notin DOMAIN post_response_questions
            \/ post_response_questions[pid].train_configuration_id # config_id
    THEN Refuse(op, 404, cred, config_id, pid)
    ELSE
      /\ post_response_questions' = Delete(post_response_questions, {pid})
      /\ IF OtherPostResponseQuestions(qid, pid) = {}
         THEN /\ question_tag_assignments' = Delete(question_tag_assignments,
                     AssignmentsOfQuestion(question_tag_assignments, qid))
              /\ questions' = Delete(questions, {qid})
              /\ pre_study_questions' = Delete(pre_study_questions,
                     {q \in DOMAIN pre_study_questions : pre_study_questions[q].question_id = qid})
         ELSE UNCHANGED <<question_tag_assignments, questions, pre_study_questions>>
      /\ question_responses' = Delete(question_responses, AnswersOfLink(pid))
      /\ question_response_tags' = Delete(question_response_tags,
             SelectedTagsOfAnswers(AnswersOfLink(pid)))
      /\ last' = Reply(op, 204, cred, config_id, pid, NoBody)
      /\ UNCHANGED <<user_tables, response_tables, group_tables, studies, question_tags, next_id,
                     inflight, world>>

-----------------------------------------------------------------------------
(* Answers to post-response questions: main.py, submit_question_responses.  *)

\* A tag of the library that nothing has assigned to the question passes too.
InLibrary(tag_id, question_id) == tag_id \in DOMAIN question_tags

\* The two checks of the tag loop: the tag is stored, and an assignment of
\* the tag to the question is stored.
AssignedToQuestion(tag_id, question_id) ==
    /\ tag_id \in DOMAIN question_tags
    /\ tag_id \in TagsOfQuestion(question_tag_assignments, question_id)

\* The selected tag ids of an answer that the tag loop adds a row for, in
\* the order of the list; None and [] select nothing.
RECURSIVE AcceptedTags(_, _)
AcceptedTags(response_data, i) ==
    LET L == response_data.selected_tag_ids IN
    IF L = NoList \/ i > Len(L) THEN <<>>
    ELSE LET qid == post_response_questions[response_data.post_response_question_id].question_id
         IN (IF AssignedToQuestion(L[i], qid) THEN <<L[i]>> ELSE <<>>)
                \o AcceptedTags(response_data, i + 1)

\* uq_question_response_tag: the rows added for one answer name a tag twice.
RepeatsTag(L) == \E i, j \in 1..Len(L) : i < j /\ L[i] = L[j]

\* The status of the request from answer i on.  pending tells that the rows
\* added for the answers before i break the unique constraint: the session
\* does not autoflush, so they reach the database at the flush of the next
\* answer, after its own checks, or at the commit.
RECURSIVE SubmitStatus(_, _, _)
SubmitStatus(responses, i, pending) ==
    IF i > Len(responses) THEN (IF pending THEN 500 ELSE 200)
    ELSE LET response_data == responses[i]
             pid == response_data.post_response_question_id
         IN
         IF pid \notin DOMAIN post_response_questions THEN 404
         ELSE IF /\ post_response_questions[pid].free_text_required
                 /\ Blank(response_data.free_text_response)
         THEN 400
         ELSE IF pending THEN 500
         ELSE SubmitStatus(responses, i + 1, RepeatsTag(AcceptedTags(response_data, 1)))

\* The number of tag rows added for the answers before answer i.
RECURSIVE TagRowsBefore(_, _)
TagRowsBefore(responses, i) ==
    IF i <= 1 THEN 0
    ELSE TagRowsBefore(responses, i - 1) + Len(AcceptedTags(responses[i - 1], 1))

\* submit_question_responses with a commit after every answer: the answers
\* that precede the refused one stay stored.
submit_question_responses_commit_each(response_id, responses) ==
    LET op == "submit_question_responses"
        status == SubmitStatus(responses, 1, FALSE)
        rid == next_id.question_responses
        refused == {i \in 1..Len(responses) : SubmitStatus(SubSeq(responses, 1, i), 1, FALSE) # 200}
        kept == IF refused = {} THEN Len(responses)
                ELSE (CHOOSE i \in refused : \A j \in refused : i <= j) - 1
        rows == [r \in rid..(rid + kept - 1) |->
                    [user_response_id |-> response_id,
                     post_response_question_id |-> responses[r - rid + 1].post_response_question_id,
                     free_text_response |-> responses[r - rid + 1].free_text_response]]
        body(ids) == [responses |-> responses, ids |-> ids]
    IN
    IF response_id \notin DOMAIN user_responses
    THEN Answer(op, 404, NoCred, response_id, NoId, body(<<>>))
    ELSE
      /\ question_responses' = question_responses @@ rows
      /\ next_id' = [next_id EXCEPT !.question_responses = rid + kept]
      /\ last' = Reply(op, status, NoCred, response_id, NoId,
                       body([i \in 1..kept |-> rid + i - 1]))
      /\ UNCHANGED <<user_tables, response_tables, group_tables, study_tables, question_tables,
                     question_response_tags, inflight, world>>

\* POST /user-responses/{response_id}/question-responses.  responses is a
\* list of QuestionResponseCreate.  An exception leaves the request without
\* a commit: nothing of it is stored.
submit_question_responses(response_id, responses) ==
    LET op == "submit_question_responses"
        status == SubmitStatus(responses, 1, FALSE)
        rid == next_id.question_responses
        tid == next_id.question_response_tags
        rows == [r \in rid..(rid + Len(responses) - 1) |->
                    [user_response_id |-> response_id,
                     post_response_question_id |-> responses[r - rid + 1].post_response_question_id,
                     free_text_response |-> responses[r - rid + 1].free_text_response]]
        tagrows == [t \in tid..(tid + TagRowsBefore(responses, Len(responses) + 1) - 1) |->
                       LET i == CHOOSE k \in 1..Len(responses) :
                                    /\ TagRowsBefore(responses, k) <= t - tid
                                    /\ t - tid < TagRowsBefore(responses, k + 1)
                       IN [question_response_id |-> rid + i - 1,
                           tag_id |-> AcceptedTags(responses[i], 1)[t - tid - TagRowsBefore(responses, i) + 1]]]
        body(ids) == [responses |-> responses, ids |-> ids]
    IN
    IF response_id \notin DOMAIN user_responses
    THEN Answer(op, 404, NoCred, response_id, NoId, body(<<>>))
    ELSE IF status # 200 THEN Answer(op, status, NoCred, response_id, NoId, body(<<>>))
    ELSE
      /\ question_responses' = question_responses @@ rows
      /\ question_response_tags' = question_response_tags @@ tagrows
      /\ next_id' = [next_id EXCEPT !.question_responses = rid + Len(responses),
                                    !.question_response_tags = tid + TagRowsBefore(responses, Len(responses) + 1)]
      /\ last' = Reply(op, 200, NoCred, response_id, NoId,
                       body([i \in 1..Len(responses) |-> rid + i - 1]))
      /\ UNCHANGED <<user_tables, response_tables, group_tables, study_tables, question_tables,
                     inflight, world>>

-----------------------------------------------------------------------------
(* Pre-study questions: main.py, create_pre_study_question to               *)
(* delete_pre_study_question.                                               *)

\* question_data is a PreStudyQuestionCreate; question_id NoId is None.  The
\* handler adds an assignment for every listed tag of the library without
\* looking for one already stored: the commit fails on a tag the question
\* already has, or that is listed twice.
create_pre_study_question(cred, study_id, question_data) ==
    LET op == "create_pre_study_question"
        user == get_current_user(cred)
        linked == question_data.question_id # NoId
        qid == IF linked THEN question_data.question_id ELSE next_id.questions
        id == next_id.pre_study_questions
        L == IF question_data.tag_ids = NoList THEN <<>> ELSE question_data.tag_ids
        adds == {i \in 1..Len(L) : L[i] \in DOMAIN question_tags}
        order == [i \in 1..Len(L) |-> Len(L)]
        body(added) == [question_id |-> question_data.question_id,
                        tag_ids |-> question_data.tag_ids, added |-> added]
    IN
    IF user = NoId THEN Answer(op, 401, cred, study_id, NoId, body(<<>>))
    ELSE IF study_id \notin DOMAIN studies THEN Answer(op, 404, cred, study_id, NoId, body(<<>>))
    ELSE IF ~IsStudyCreator(study_id, user) THEN Answer(op, 403, cred, study_id, NoId, body(<<>>))
    ELSE IF linked /\ qid \notin DOMAIN questions THEN Answer(op, 404, cred, study_id, NoId, body(<<>>))
    ELSE IF ~linked /\ Blank(question_data.question_text) THEN Answer(op, 400, cred, study_id, NoId, body(<<>>))
    ELSE IF \E q \in PreStudyQuestionsOfStudy(study_id) : pre_study_questions[q].question_id = qid
    THEN Answer(op, 400, cred, study_id, NoId, body(<<>>))
    ELSE IF \/ ~AddsAreUnique(L, adds)
            \/ \E i \in adds : L[i] \in TagsOfQuestion(question_tag_assignments, qid)
    THEN Answer(op, 500, cred, study_id, NoId, body(Added(L, adds)))
    ELSE
      /\ questions' = IF linked THEN questions
                      ELSE Insert(questions, qid,
                               [allows_free_text |-> question_data.allows_free_text,
                                allows_tags |-> question_data.allows_tags])
      /\ pre_study_questions' = Insert(pre_study_questions, id,
             [question_id |-> qid, study_id |-> study_id, order |-> question_data.order])
      /\ question_tag_assignments' = question_tag_assignments @@
             AddedAssignments(next_id.question_tag_assignments, qid, L, adds, order)
      /\ next_id' = [next_id EXCEPT
             !.questions = IF linked THEN @ ELSE @ + 1,
             !.pre_study_questions = id + 1,
             !.question_tag_assignments = @ + Cardinality(adds)]
      /\ last' = Reply(op, 201, cred, study_id, id, body(Added(L, adds)))
      /\ UNCHANGED <<user_tables, response_tables, group_tables, studies, post_response_questions,
                     question_tags, inflight, world, answer_tables>>

update_pre_study_question(cred, study_id, pre_study_question_id, question_data) ==
    LET op == "update_pre_study_question"
        user == get_current_user(cred)
        id == pre_study_question_id
        qid == pre_study_questions[id].question_id
        rec == IF question_data.tag_ids = NoList
               THEN [ok |-> TRUE, rows |-> question_tag_assignments,
                     next |-> next_id.question_tag_assignments]
               ELSE ReconcilePreStudyTags(question_tag_assignments,
                        next_id.question_tag_assignments, qid, question_data.tag_ids)
        L == IF question_data.tag_ids = NoList THEN <<>> ELSE question_data.tag_ids
        body(added) == [tag_ids |-> question_data.tag_ids, added |-> added]
        added == Added(L, PositionsToAdd(question_tag_assignments, qid, L))
    IN
    IF user = NoId THEN Answer(op, 401, cred, study_id, id, body(<<>>))
    ELSE IF study_id \notin DOMAIN studies THEN Answer(op, 404, cred, study_id, id, body(<<>>))
    ELSE IF ~IsStudyCreator(study_id, user) THEN Answer(op, 403, cred, study_id, id, body(<<>>))
    ELSE IF id \notin PreStudyQuestionsOfStudy(study_id) THEN Answer(op, 404, cred, study_id, id, body(<<>>))
    ELSE IF ~rec.ok THEN Answer(op, 500, cred, study_id, id, body(added))
    ELSE
      /\ pre_study_questions' = Update(pre_study_questions, id,
             [pre_study_questions[id] EXCEPT !.order = question_data.order])
      /\ questions' = IF ~Truthy(question_data.question_text) \/ question_data.question_id # NoId
                      THEN questions
                      ELSE Update(questions, qid,
                               [questions[qid] EXCEPT
                                   !.allows_free_text = question_data.allows_free_text,
                                   !.allows_tags = question_data.allows_tags])
      /\ question_tag_assignments' = rec.rows
      /\ next_id' = [next_id EXCEPT !.question_tag_assignments = rec.next]
      /\ last' = Reply(op, 200, cred, study_id, id, body(added))
      /\ UNCHANGED <<user_tables, response_tables, group_tables, studies, post_response_questions,
                     question_tags, inflight, world, answer_tables>>

\* The list of a study's pre-study questions takes no credential.
get_pre_study_questions(study_id) ==
    LET op == "get_pre_study_questions" IN
    IF study_id \notin DOMAIN studies THEN Refuse(op, 404, NoCred, study_id, NoId)
    ELSE Refuse(op, 200, NoCred, study_id, NoId)

\* Only the link is deleted: the question stays.
delete_pre_study_question(cred, study_id, pre_study_question_id) ==
    LET op == "delete_pre_study_question"
        user == get_current_user(cred)
        id == pre_study_question_id
    IN
    IF user = NoId THEN Refuse(op, 401, cred, study_id, id)
    ELSE IF study_id \notin DOMAIN studies THEN Refuse(op, 404, cred, study_id, id)
    ELSE IF ~IsStudyCreator(study_id, user) THEN Refuse(op, 403, cred, study_id, id)
    ELSE IF id \notin PreStudyQuestionsOfStudy(study_id) THEN Refuse(op, 404, cred, study_id, id)
    ELSE
      /\ pre_study_questions' = Delete(pre_study_questions, {id})
      /\ last' = Reply(op, 204, cred, study_id, id, NoBody)
      /\ UNCHANGED <<user_tables, response_tables, group_tables, studies, question_tables, next_id,
                     inflight, world, answer_tables>>

-----------------------------------------------------------------------------
(* The initial state: an empty store, but for the registered users; every   *)
(* id sequence at 1; no verification issued, no mail sent, the clock at 0;  *)
(* no request in flight.                                                    *)

Users == 1..NumUsers
Slots == 1..NumSlots

IdleSlot == [pc |-> "idle", response |-> NoBody, existing |-> NoId, status |-> 0, stored |-> NoId]

\* The addresses of the registered users, by id.
RegisteredEmails == <<"u1@x", "u2@x", "u3@x", "u4@x">>

\* The store with the first n users registered.
InitialStore(n) ==
    /\ users = [u \in 1..n |-> [email |-> RegisteredEmails[u]]]
    /\ email_verifications = <<>>
    /\ train_configurations = <<>>
    /\ user_responses = <<>>
    /\ scenario_groups = <<>>
    /\ scenario_group_editors = {}
    /\ scenario_group_items = <<>>
    /\ studies = <<>>
    /\ questions = <<>>
    /\ post_response_questions = <<>>
    /\ pre_study_questions = <<>>
    /\ question_tags = <<>>
    /\ question_tag_assignments = <<>>
    /\ question_responses = <<>>
    /\ question_response_tags = <<>>
    /\ next_id = [users |-> n + 1, email_verifications |-> 1,
                  train_configurations |-> 1, user_responses |-> 1, scenario_groups |-> 1,
                  scenario_group_items |-> 1, studies |-> 1, questions |-> 1,
                  post_response_questions |-> 1, pre_study_questions |-> 1,
                  question_tags |-> 1, question_tag_assignments |-> 1,
                  question_responses |-> 1, question_response_tags |-> 1]
    /\ outbox = {}
    /\ now = 0
    /\ inflight = [p \in Slots |-> IdleSlot]
    /\ last = Reply("none", 0, NoCred, NoId, NoId, NoBody)

Init == InitialStore(NumUsers)

-----------------------------------------------------------------------------
(* Requests.  The sets the specifications draw their requests from.         *)

Shape(h, w, tiles) == [height |-> h, width |-> w, tiles |-> tiles]

\* A well-formed 2x1 grid, a grid one row short, a grid with a row too long,
\* and a height the schema refuses.
ConfigRequests ==
    {Shape(2, 1, <<1, 1>>), Shape(2, 1, <<1>>), Shape(1, 1, <<2>>), Shape(0, 1, <<>>)}

ConfigIds == 1..(MaxConfigs + 1)    \* the last one is never created

Choice(row, col, selection_type, user_id, gender) ==
    [row |-> row, col |-> col, selection_type |-> selection_type, user_id |-> user_id,
     gender |-> gender]

\* Cells (0,0) and (1,0) lie in the 2x1 grid, (2,0) and (0,1) outside it; the
\* schema refuses row -1.
Choices ==
    {Choice(0, 0, "seat", NULL, NULL), Choice(1, 0, "floor", "u1", "man"),
     Choice(2, 0, "floor", NULL, NULL), Choice(0, 1, "seat", NULL, NULL),
     Choice(-1, 0, "seat", NULL, NULL)}

SessionIds == {NULL, "", "s1"}

UserResponseRequest(config_id, session_id, choice) ==
    [train_configuration_id |-> config_id, row |-> choice.row, col |-> choice.col,
     selection_type |-> choice.selection_type, user_session_id |-> session_id,
     user_id |-> choice.user_id, gender |-> choice.gender]

UserResponseRequests ==
    {UserResponseRequest(c, s, ch) : c \in ConfigIds, s \in SessionIds, ch \in Choices}

\* A request that would insert is taken only while the model's bound on the
\* rows ever inserted allows it.
WithinResponseBound(response) ==
    \/ next_id.user_responses <= MaxResponses
    \/ LookupUserResponse(response).status # 0
    \/ LookupUserResponse(response).existing # NoId

-----------------------------------------------------------------------------
(* Seat selections, one request at a time.                                  *)

NextResponses ==
    \/ /\ next_id.train_configurations <= MaxConfigs
       /\ \E config \in ConfigRequests : create_train_configuration(config)
    \/ \E response \in UserResponseRequests :
          WithinResponseBound(response) /\ create_user_response(response)

SpecResponses == Init /\ [][NextResponses]_vars

-----------------------------------------------------------------------------
(* Seat selections, requests overlapping: each of the slots serves one      *)
(* request at a time, the two parts of a request apart.                     *)

\* Two choices and a cell outside the grid for session "s1", and one request
\* with an empty session id.
RaceRequests ==
    {UserResponseRequest(1, "s1", Choice(0, 0, "seat", NULL, NULL)),
     UserResponseRequest(1, "s1", Choice(1, 0, "floor", "u1", "man")),
     UserResponseRequest(1, "s1", Choice(2, 0, "floor", NULL, NULL)),
     UserResponseRequest(1, "", Choice(0, 0, "seat", NULL, NULL))}

\* The rows the requests in flight may still insert.
PendingInserts == Cardinality({p \in Slots : inflight[p].pc = "looked" /\ inflight[p].existing = NoId})

\* The requests race on one scenario, created first.
NextRace ==
    \/ /\ train_configurations = <<>>
       /\ \E config \in ConfigRequests : create_train_configuration(config)
    \/ \E p \in Slots, response \in RaceRequests :
          /\ \/ next_id.user_responses + PendingInserts <= MaxResponses
             \/ LookupUserResponse(response).status # 0
             \/ LookupUserResponse(response).existing # NoId
          /\ create_user_response_lookup(p, response)
    \/ \E p \in Slots : create_user_response_store(p)

SpecRace == Init /\ [][NextRace]_vars

-----------------------------------------------------------------------------
(* Credentials and ids of the requests on scenario groups.                  *)

Absent     == [kind |-> "absent", sub |-> NoId]
Invalid    == [kind |-> "invalid", sub |-> NoId]
Expired(u) == [kind |-> "expired", sub |-> u]
Token(u)   == [kind |-> "token", sub |-> u]

UserIds  == 1..(NumUsers + 1)     \* the last one is no registered user
GroupIds == 1..(MaxGroups + 1)    \* the last one is never created
ItemIds  == 1..(MaxItems + 1)     \* the last one is never created

\* Every kind of credential; a signed token may name a user that is gone.
Credentials ==
    {Absent, Invalid} \cup {Expired(u) : u \in Users} \cup {Token(u) : u \in UserIds}

\* The registered users' tokens, and no cookie.
UserCredentials == {Absent} \cup {Token(u) : u \in Users}

Item(config_id, order) == [train_configuration_id |-> config_id, order |-> order]

\* Scenario 1 is the one the group specifications create; scenario 2 is missing.
ItemRequests == {Item(1, 0), Item(1, 1), Item(2, 0)}

-----------------------------------------------------------------------------
(* Scenario groups: one scenario, then any requests on groups, editors and  *)
(* items.                                                                   *)

NextGroups ==
    \/ /\ train_configurations = <<>>
       /\ create_train_configuration(Shape(2, 1, <<1, 1>>))
    \/ \E cred \in UserCredentials, items \in {<<>>, <<Item(1, 0)>>, <<Item(2, 0)>>} :
          /\ next_id.scenario_groups <= MaxGroups
          /\ next_id.scenario_group_items + Len(items) <= MaxItems + 1
          /\ create_scenario_group(cred, items)
    \/ \E cred \in UserCredentials, g \in GroupIds : delete_scenario_group(cred, g)
    \/ \E cred \in UserCredentials, g \in GroupIds, u \in UserIds :
          add_scenario_group_editor(cred, g, u)
    \/ \E cred \in UserCredentials, g \in GroupIds, u \in UserIds :
          remove_scenario_group_editor(cred, g, u)
    \/ \E cred \in UserCredentials, g \in GroupIds, item \in ItemRequests :
          /\ next_id.scenario_group_items <= MaxItems
          /\ add_scenario_group_item(cred, g, item)
    \/ \E cred \in UserCredentials, g \in GroupIds, i \in ItemIds, item \in ItemRequests :
          update_scenario_group_item(cred, g, i, item)
    \/ \E cred \in UserCredentials, g \in GroupIds, i \in ItemIds :
          delete_scenario_group_item(cred, g, i)

SpecGroups == Init /\ [][NextGroups]_vars

-----------------------------------------------------------------------------
(* Studies: one scenario and the groups of user 1, then any requests of the *)
(* registered users on the groups, their editors and items, on studies and  *)
(* on their pre-study questions.                                            *)

Researchers == {Token(u) : u \in Users}

\* The users a creator names as editors; the last one is not registered.
Collaborators == UserIds \ {1}

StudyIds == 1..(MaxStudies + 1)                        \* the last one is never created
PreStudyQuestionIds == 1..(MaxPreStudyQuestions + 1)   \* the last one is never created

PreStudyQuestionRequest(question_id, question_text, order, tag_ids) ==
    [question_id |-> question_id, question_text |-> question_text, allows_free_text |-> TRUE,
     allows_tags |-> TRUE, order |-> order, tag_ids |-> tag_ids]

\* A new question, a blank text, a link to the default question of scenario 1
\* and a link to a question that is not stored.
PreStudyQuestionCreates ==
    {PreStudyQuestionRequest(NoId, "q", 0, <<>>), PreStudyQuestionRequest(NoId, " ", 0, <<>>),
     PreStudyQuestionRequest(1, NULL, 0, <<>>), PreStudyQuestionRequest(9, NULL, 0, <<>>)}

NextStudies ==
    \/ /\ train_configurations = <<>>
       /\ create_train_configuration(Shape(2, 1, <<1, 1>>))
    \/ \E items \in {<<>>, <<Item(2, 0)>>} :
          /\ next_id.scenario_groups <= MaxGroups
          /\ create_scenario_group(Token(1), items)
    \/ \E cred \in Researchers, g \in GroupIds : get_scenario_group(cred, g)
    \/ \E cred \in Researchers, g \in GroupIds : update_scenario_group(cred, g)
    \/ \E cred \in Researchers, g \in GroupIds : delete_scenario_group(cred, g)
    \/ \E cred \in Researchers, g \in GroupIds : list_scenario_group_editors(cred, g)
    \/ \E cred \in Researchers, g \in GroupIds, u \in Collaborators :
          add_scenario_group_editor(cred, g, u)
    \/ \E cred \in Researchers, g \in GroupIds, u \in Collaborators :
          remove_scenario_group_editor(cred, g, u)
    \/ \E cred \in Researchers, g \in GroupIds, item \in {Item(1, 0), Item(2, 0)} :
          /\ next_id.scenario_group_items < MaxItems
          /\ add_scenario_group_item(cred, g, item)
    \/ \E cred \in Researchers, g \in GroupIds, i \in 1..MaxItems,
          item \in {Item(1, 0), Item(2, 0)} :
          update_scenario_group_item(cred, g, i, item)
    \/ \E cred \in Researchers, g \in GroupIds, i \in 1..MaxItems :
          delete_scenario_group_item(cred, g, i)
    \/ \E cred \in Researchers, g \in GroupIds :
          /\ next_id.studies <= MaxStudies
          /\ create_study(cred, g)
    \/ \E cred \in Researchers : list_studies(cred)
    \/ \E cred \in Researchers, st \in StudyIds : get_study(cred, st)
    \/ \E cred \in Researchers, st \in StudyIds, g \in {NoId} \cup GroupIds :
          update_study(cred, st, g)
    \/ \E cred \in Researchers, st \in StudyIds : delete_study(cred, st)
    \/ \E cred \in Researchers, st \in StudyIds, question_data \in PreStudyQuestionCreates :
          /\ next_id.pre_study_questions <= MaxPreStudyQuestions
          /\ create_pre_study_question(cred, st, question_data)
    \/ \E cred \in Researchers, st \in StudyIds, q \in PreStudyQuestionIds :
          update_pre_study_question(cred, st, q, PreStudyQuestionRequest(NoId, "q", 1, NoList))
    \/ \E cred \in Researchers, st \in StudyIds, q \in PreStudyQuestionIds :
          delete_pre_study_question(cred, st, q)
    \/ \E st \in StudyIds : get_pre_study_questions(st)

SpecStudies == Init /\ [][NextStudies]_vars

-----------------------------------------------------------------------------
(* Authentication: every endpoint that depends on get_current_user, called  *)
(* with every kind of credential on the first row of each table.            *)

\* Every kind of credential for user 1, and a token of a user that is gone.
AuthCredentials == {cred \in Credentials : cred.sub \notin Users \ {1}}

QuestionRequest(question_id, question_text, is_required, order, tag_ids) ==
    [question_id |-> question_id, question_text |-> question_text,
     is_required |-> is_required, free_text_required |-> FALSE,
     allows_free_text |-> TRUE, allows_tags |-> TRUE, order |-> order, tag_ids |-> tag_ids]

NextAuth ==
    \/ /\ train_configurations = <<>>
       /\ create_train_configuration(Shape(2, 1, <<1, 1>>))
    \/ \E cred \in AuthCredentials : get_current_user_info(cred)
    \/ \E cred \in AuthCredentials :
          /\ next_id.scenario_groups <= MaxGroups
          /\ create_scenario_group(cred, <<>>)
    \/ \E cred \in AuthCredentials : list_scenario_groups(cred)
    \/ \E cred \in AuthCredentials : get_scenario_group(cred, 1)
    \/ \E cred \in AuthCredentials : update_scenario_group(cred, 1)
    \/ \E cred \in AuthCredentials : delete_scenario_group(cred, 1)
    \/ \E cred \in AuthCredentials : add_scenario_group_editor(cred, 1, 2)
    \/ \E cred \in AuthCredentials : remove_scenario_group_editor(cred, 1, 2)
    \/ \E cred \in AuthCredentials : list_scenario_group_editors(cred, 1)
    \/ \E cred \in AuthCredentials :
          /\ next_id.scenario_group_items < MaxItems
          /\ add_scenario_group_item(cred, 1, Item(1, 0))
    \/ \E cred \in AuthCredentials : update_scenario_group_item(cred, 1, 1, Item(1, 0))
    \/ \E cred \in AuthCredentials : delete_scenario_group_item(cred, 1, 1)
    \/ \E cred \in AuthCredentials :
          /\ next_id.studies <= MaxStudies
          /\ create_study(cred, 1)
    \/ \E cred \in AuthCredentials : list_studies(cred)
    \/ \E cred \in AuthCredentials : get_study(cred, 1)
    \/ \E cred \in AuthCredentials : update_study(cred, 1, 1)
    \/ \E cred \in AuthCredentials : delete_study(cred, 1)
    \/ \E cred \in AuthCredentials :
          /\ next_id.pre_study_questions <= MaxPreStudyQuestions
          /\ create_pre_study_question(cred, 1, PreStudyQuestionRequest(1, NULL, 0, <<>>))
    \/ \E cred \in AuthCredentials :
          update_pre_study_question(cred, 1, 1, PreStudyQuestionRequest(NoId, NULL, 0, NoList))
    \/ \E cred \in AuthCredentials : delete_pre_study_question(cred, 1, 1)
    \/ \E cred \in AuthCredentials :
          /\ next_id.post_response_questions <= MaxPostResponseQuestions + 1
          /\ create_post_response_question(cred, 1, QuestionRequest(NoId, "q", FALSE, 1, <<>>))
    \/ \E cred \in AuthCredentials :
          update_post_response_question(cred, 1, 1, QuestionRequest(NoId, "q", FALSE, 0, NoList))
    \/ \E cred \in AuthCredentials : delete_post_response_question(cred, 1, 1)
    \/ \E cred \in AuthCredentials : get_tag_library(cred)
    \/ \E cred \in AuthCredentials :
          /\ next_id.question_tags <= Len(DEFAULT_TAGS) + MaxUserTags
          /\ create_question_tag(cred, [tag_text |-> "t", is_default |-> FALSE])

SpecAuth == Init /\ [][NextAuth]_vars

-----------------------------------------------------------------------------
(* Questions: scenario 1 with its default question, a group and a study of  *)
(* user 1 that hold the scenario, then any requests of user 1 on the        *)
(* scenario's post-response questions, on the study's pre-study questions   *)
(* and on tags.                                                             *)

PostResponseQuestionIds == 1..(MaxPostResponseQuestions + 2)   \* the last one is never created

\* Lists of tag ids: tags 1 to 3 are default tags, the tag after the default
\* ones is the first a user creates, and tag 99 is never created.
TagLists ==
    {<<>>, <<2, 1>>, <<3, 99, 1>>, <<Len(DEFAULT_TAGS) + 1, 2>>}

\* A request adds tag assignments only while the model's bound on the rows
\* ever added allows it.
WithinAssignmentBound(question_id, tag_ids) ==
    \/ tag_ids = NoList
    \/ next_id.question_tag_assignments
           + Cardinality(PositionsToAdd(question_tag_assignments, question_id, tag_ids))
         <= Len(DEFAULT_TAGS) + MaxAssignments + 1

QuestionOf(table, id) == IF id \in DOMAIN table THEN table[id].question_id ELSE NoId

NextQuestions ==
    \/ /\ train_configurations = <<>>
       /\ create_train_configuration(Shape(2, 1, <<1, 1>>))
    \/ /\ next_id.scenario_groups <= MaxGroups
       /\ create_scenario_group(Token(1), <<Item(1, 0)>>)
    \/ /\ next_id.studies <= MaxStudies
       /\ create_study(Token(1), 1)
    \/ \E q \in {NoId, 1} :
          /\ next_id.pre_study_questions <= MaxPreStudyQuestions
          /\ create_pre_study_question(Token(1), 1,
                 PreStudyQuestionRequest(q, IF q = NoId THEN "q" ELSE NULL, 0, <<>>))
    \/ \E q \in PreStudyQuestionIds, tag_ids \in TagLists \cup {NoList} :
          /\ WithinAssignmentBound(QuestionOf(pre_study_questions, q), tag_ids)
          /\ update_pre_study_question(Token(1), 1, q,
                 PreStudyQuestionRequest(NoId, NULL, 0, tag_ids))
    \/ \E tag_ids \in {<<>>, <<2, 1>>} :
          /\ next_id.post_response_questions <= MaxPostResponseQuestions + 1
          /\ WithinAssignmentBound(next_id.questions, tag_ids)
          /\ create_post_response_question(Token(1), 1,
                 QuestionRequest(NoId, "q", FALSE, 1, tag_ids))
    \/ \E p \in PostResponseQuestionIds, tag_ids \in TagLists \cup {NoList} :
          /\ WithinAssignmentBound(QuestionOf(post_response_questions, p), tag_ids)
          /\ update_post_response_question(Token(1), 1, p,
                 QuestionRequest(NoId, "q", FALSE, 0, tag_ids))
    \/ \E p \in PostResponseQuestionIds : delete_post_response_question(Token(1), 1, p)
    \/ /\ next_id.question_tags <= Len(DEFAULT_TAGS) + MaxUserTags
       /\ create_question_tag(Token(1), [tag_text |-> "t", is_default |-> FALSE])

SpecQuestions == Init /\ [][NextQuestions]_vars

-----------------------------------------------------------------------------
(* Scenarios: any requests on the scenarios and on their post-response      *)
(* questions, with and without the token of a registered user.              *)

ScenarioUpdates == ConfigRequests \cup {Shape(1, 1, <<1>>)}

NextScenarios ==
    \/ /\ train_configurations = <<>>
       /\ \E config \in ConfigRequests : create_train_configuration(config)
    \/ \E c \in ConfigIds, config \in ScenarioUpdates : update_train_configuration(c, config)
    \/ \E cred \in UserCredentials, c \in ConfigIds :
          /\ next_id.post_response_questions <= MaxPostResponseQuestions + 1
          /\ create_post_response_question(cred, c, QuestionRequest(NoId, "q", FALSE, 1, <<>>))
    \/ \E cred \in UserCredentials, c \in ConfigIds, p \in PostResponseQuestionIds :
          update_post_response_question(cred, c, p, QuestionRequest(NoId, "q", FALSE, 1, NoList))
    \/ \E cred \in UserCredentials, c \in ConfigIds, p \in PostResponseQuestionIds :
          delete_post_response_question(cred, c, p)

SpecScenarios == Init /\ [][NextScenarios]_vars

-----------------------------------------------------------------------------
(* Properties of create_user_response.                                      *)

\* The stored responses of a (scenario, session) pair.
ResponsesOfPair(rows, config_id, session_id) ==
    {id \in DOMAIN rows : /\ rows[id].train_configuration_id = config_id
                          /\ rows[id].user_session_id = session_id}

AtMostOneResponsePerSession ==
    \A c \in ConfigIds, sid \in SessionIds :
        Truthy(sid) => Cardinality(ResponsesOfPair(user_responses, c, sid)) <= 1

\* A step that carries out a submission with a non-empty session id inserts
\* the pair's first row, or rewrites the four choice columns of its only row.
UpsertStep ==
    (/\ last'.op = "create_user_response" /\ last'.status = 201
     /\ Truthy(last'.body.user_session_id))
    => LET response == last'.body
           id == last'.id
           before == ResponsesOfPair(user_responses, response.train_configuration_id,
                                     response.user_session_id)
       IN IF before = {}
          THEN /\ id \notin DOMAIN user_responses
               /\ user_responses' = Insert(user_responses, id, response)
          ELSE /\ before = {id}
               /\ user_responses' = Update(user_responses, id,
                      [user_responses[id] EXCEPT !.row = response.row,
                                                 !.col = response.col,
                                                 !.selection_type = response.selection_type,
                                                 !.gender = response.gender])
               /\ ResponsesOfPair(user_responses', response.train_configuration_id,
                                  response.user_session_id) = {id}

\* C1: with requests served one at a time there is at most one stored
\* response per (scenario, non-empty session id); the first submission of a
\* pair inserts its row and every later one rewrites row, col, selection_type
\* and gender of that row in place, so the pair's one row carries the values
\* of the latest submission carried out.
C1_UpsertBySession == []AtMostOneResponsePerSession /\ [][UpsertStep]_vars

\* A second submission of a pair was carried out on the row of the first: the
\* row has the new choice and still the user_id of the first submission.
C1_UpdatedInPlace ==
    /\ last.op = "create_user_response" /\ last.status = 201
    /\ Truthy(last.body.user_session_id)
    /\ last.id \in DOMAIN user_responses
    /\ user_responses[last.id].row = last.body.row
    /\ user_responses[last.id].user_id # last.body.user_id

\* Slots p and q have each carried a request of the same (scenario, session)
\* pair through both parts, and neither lookup found a row.
BothSawNoRow(p, q) ==
    /\ p # q
    /\ inflight[p].pc = "done" /\ inflight[q].pc = "done"
    /\ inflight[p].existing = NoId /\ inflight[q].existing = NoId
    /\ inflight[p].response.train_configuration_id = inflight[q].response.train_configuration_id
    /\ inflight[p].response.user_session_id = inflight[q].response.user_session_id
    /\ Truthy(inflight[p].response.user_session_id)

\* C2: when two requests of one (scenario, session) pair both run the
\* existence query before either commits, both find no row, both insert and
\* both are answered 201: the store holds two rows of the pair, nothing in
\* user_responses refusing the second.
C2_RaceInsertsTwice ==
    \A p, q \in Slots :
        BothSawNoRow(p, q) =>
            /\ inflight[p].status = 201 /\ inflight[q].status = 201
            /\ inflight[p].stored # inflight[q].stored
            /\ {inflight[p].stored, inflight[q].stored} \subseteq
                   ResponsesOfPair(user_responses, inflight[p].response.train_configuration_id,
                                   inflight[p].response.user_session_id)

\* Two requests of one pair have raced and the pair has two stored rows.
C2_TwoRowsForOnePair ==
    /\ \E p, q \in Slots : BothSawNoRow(p, q)
    /\ ~AtMostOneResponsePerSession

-----------------------------------------------------------------------------
(* Properties of the access checks on scenario groups.                      *)

\* The credential is a signed, unexpired token of a registered user.
Authentic(cred) == cred.kind = "token" /\ cred.sub \in DOMAIN users

\* The role of a user on a stored group, read from the given tables.
RoleIn(groups, editors, group_id, user_id) ==
    IF groups[group_id].created_by_user_id = user_id THEN "OWNER"
    ELSE IF [scenario_group_id |-> group_id, user_id |-> user_id] \in editors THEN "EDITOR"
    ELSE "NONE"

Role(group_id, user_id) == RoleIn(scenario_groups, scenario_group_editors, group_id, user_id)

ItemOps == {"add_scenario_group_item", "update_scenario_group_item", "delete_scenario_group_item"}

OwnerOps == {"delete_scenario_group", "add_scenario_group_editor", "remove_scenario_group_editor"}

\* A request on the items of a stored group, decided on the creator column and
\* the editor links as they are when the request arrives.
ItemAccessStep ==
    last'.op \in ItemOps =>
        LET g == last'.id
            user == last'.cred.sub
        IN
        /\ scenario_group_items' # scenario_group_items =>
               /\ Authentic(last'.cred) /\ g \in DOMAIN scenario_groups
               /\ Role(g, user) \in {"OWNER", "EDITOR"}
        /\ (Authentic(last'.cred) /\ g \in DOMAIN scenario_groups) =>
               IF Role(g, user) = "NONE"
               THEN last'.status = 403 /\ UNCHANGED tables
               ELSE last'.status \in {200, 201, 204, 404}

\* The removal of an editor link takes the user's access to the group away,
\* unless the user created the group.
RemovalRevokes ==
    (last'.op = "remove_scenario_group_editor" /\ last'.status = 204) =>
        /\ last'.id \in DOMAIN scenario_groups'
        /\ RoleIn(scenario_groups', scenario_group_editors', last'.id, last'.id2)
               \in {"OWNER", "NONE"}

\* C3: an add, update or delete of an item of a stored group is carried out
\* only for the group's creator or a user with an editor link at the time of
\* the request; every other authenticated caller is answered 403, never 404,
\* and nothing is changed; a removed editor link no longer gives access.
C3_ItemsNeedCreatorOrEditor == [][ItemAccessStep /\ RemovalRevokes]_vars

\* A caller with no role on a stored group that has items was refused.
C3_OutsiderRefused ==
    /\ last.op \in ItemOps /\ last.status = 403
    /\ last.id \in DOMAIN scenario_groups
    /\ ItemsOfGroup(last.id) # {}
    /\ Role(last.id, last.cred.sub) = "NONE"

\* A request to delete a stored group or to change its editor links: refused
\* with 403 for every authenticated caller but the creator.
OwnerStep ==
    last'.op \in OwnerOps =>
        LET g == last'.id
            user == last'.cred.sub
        IN
        (Authentic(last'.cred) /\ g \in DOMAIN scenario_groups /\ Role(g, user) # "OWNER") =>
            last'.status = 403 /\ UNCHANGED tables

\* Whatever the request, the editor links of a group change, and a group goes,
\* only at its creator's request.
OnlyOwnerManages ==
    \A g \in DOMAIN scenario_groups :
        (\/ g \notin DOMAIN scenario_groups'
         \/ {e \in scenario_group_editors : e.scenario_group_id = g} #
                {e \in scenario_group_editors' : e.scenario_group_id = g}) =>
            /\ last'.op \in OwnerOps /\ last'.id = g
            /\ Authentic(last'.cred) /\ Role(g, last'.cred.sub) = "OWNER"

\* C4: delete_scenario_group, add_scenario_group_editor and
\* remove_scenario_group_editor answer 403 to an editor who is not the creator
\* and leave the group and its editor links as they are; no request of a
\* caller other than the creator grants or revokes an editor link.
C4_OnlyCreatorManages == [][OwnerStep /\ OnlyOwnerManages]_vars

\* An editor of a group, not its creator, was refused.
C4_EditorRefused ==
    /\ last.op \in OwnerOps /\ last.status = 403
    /\ last.id \in DOMAIN scenario_groups
    /\ Role(last.id, last.cred.sub) = "EDITOR"

-----------------------------------------------------------------------------
(* Properties of the access checks on studies.                              *)

StudyOps == {"get_study", "update_study", "delete_study", "create_pre_study_question",
             "update_pre_study_question", "delete_pre_study_question"}

\* The user is the one stored as the creator of the study.
CreatedStudy(study_id, user_id) ==
    study_id \in DOMAIN studies /\ studies[study_id].created_by_user_id = user_id

\* A request on a study or on its pre-study questions.
StudyAccessStep ==
    last'.op \in StudyOps =>
        LET st == last'.id
            user == last'.cred.sub
        IN
        /\ (Authentic(last'.cred) /\ st \in DOMAIN studies /\ ~CreatedStudy(st, user)) =>
               last'.status = 403 /\ UNCHANGED tables
        /\ (\/ last'.status \in {200, 201, 204}
            \/ studies' # studies
            \/ pre_study_questions' # pre_study_questions) =>
               Authentic(last'.cred) /\ CreatedStudy(st, user)

\* The list of studies shows a user the studies that user created.
StudyListStep ==
    (last'.op = "list_studies" /\ last'.status = 200) =>
        last'.body.ids = {st \in DOMAIN studies : CreatedStudy(st, last'.cred.sub)}

-----------------------------------------------------------------------------
(* Properties of the order of the checks: the lookup of the addressed group *)
(* or study, the check of the caller, the lookups of the other ids.         *)

GroupOps == {"get_scenario_group", "update_scenario_group", "list_scenario_group_editors"}
                \cup OwnerOps \cup ItemOps

\* The request addresses a group or a study that is not stored.
AddressedMissing(reply) ==
    \/ reply.op \in GroupOps /\ reply.id \notin DOMAIN scenario_groups
    \/ reply.op = "create_study" /\ reply.id2 \notin DOMAIN scenario_groups
    \/ reply.op \in StudyOps \cup {"get_pre_study_questions"} /\ reply.id \notin DOMAIN studies

\* The request names, besides the group or study it addresses, a user, a
\* train configuration, an item, a group, a question or a pre-study question
\* that is not stored.
OtherMissing(reply) ==
    \/ /\ reply.op \in {"add_scenario_group_editor", "remove_scenario_group_editor"}
       /\ reply.id2 \notin DOMAIN users
    \/ /\ reply.op = "create_scenario_group"
       /\ \E k \in 1..Len(reply.body.items) :
              reply.body.items[k].train_configuration_id \notin DOMAIN train_configurations
    \/ /\ reply.op = "add_scenario_group_item"
       /\ reply.id2 \notin DOMAIN train_configurations
    \/ /\ reply.op = "update_scenario_group_item"
       /\ \/ reply.id2 \notin DOMAIN scenario_group_items
          \/ reply.body.train_configuration_id \notin DOMAIN train_configurations
    \/ /\ reply.op = "delete_scenario_group_item"
       /\ reply.id2 \notin DOMAIN scenario_group_items
    \/ /\ reply.op = "update_study"
       /\ reply.id2 # NoId /\ reply.id2 \notin DOMAIN scenario_groups
    \/ /\ reply.op = "create_pre_study_question"
       /\ reply.body.question_id # NoId /\ reply.body.question_id \notin DOMAIN questions
    \/ /\ reply.op \in {"update_pre_study_question", "delete_pre_study_question"}
       /\ reply.id2 \notin DOMAIN pre_study_questions

\* The caller has the role the endpoint asks for on the stored group or study
\* the request addresses.
HasRequiredRole(reply) ==
    LET user == reply.cred.sub IN
    CASE reply.op \in OwnerOps -> Role(reply.id, user) = "OWNER"
      [] reply.op \in GroupOps \ OwnerOps -> Role(reply.id, user) # "NONE"
      [] reply.op = "create_study" -> Role(reply.id2, user) # "NONE"
      [] reply.op \in StudyOps -> CreatedStudy(reply.id, user)
      [] OTHER -> TRUE

\* Every id a request names is looked up before the caller is checked.
NotFoundFirstStep ==
    (Authentic(last'.cred) /\ (AddressedMissing(last') \/ OtherMissing(last'))) =>
        last'.status = 404

\* The addressed group or study is looked up first, the caller is checked
\* next, and the other ids are looked up after that.
AddressedFirstStep ==
    /\ (last'.op = "get_pre_study_questions" /\ AddressedMissing(last')) => last'.status = 404
    /\ Authentic(last'.cred) =>
          IF AddressedMissing(last') THEN last'.status = 404
          ELSE IF ~HasRequiredRole(last') THEN last'.status = 403
          ELSE OtherMissing(last') => last'.status = 404

\* C7 as stated: on every scenario-group and study endpoint a request that
\* names an id of any kind that is not stored is answered 404, whatever the
\* caller's role.
C7_NotFoundFirst == [][NotFoundFirstStep]_vars

\* C7, amended: a request that addresses a group or a study that is not
\* stored is answered 404; on a stored one a caller without the required role
\* is answered 403 whatever other ids the request names, and a caller with
\* the role is answered 404 when another id the request names is not stored.
C7_AddressedFirst == [][AddressedFirstStep]_vars

\* A caller without the required role was answered 403 on a request that
\* names an id that is not stored.
C7_RefusedBeforeLookup ==
    /\ last.status = 403 /\ Authentic(last.cred)
    /\ ~AddressedMissing(last) /\ OtherMissing(last)

-----------------------------------------------------------------------------
(* Properties of get_current_user.                                          *)

\* The operations of the endpoints that depend on get_current_user.
AuthenticatedOps ==
    {"get_current_user_info", "create_scenario_group", "list_scenario_groups", "create_study",
     "list_studies", "create_post_response_question", "update_post_response_question",
     "delete_post_response_question", "get_tag_library", "create_question_tag"}
        \cup GroupOps \cup StudyOps

\* A request to such an endpoint without the token of a registered user is
\* answered 401 and changes nothing; with one it is never answered 401.
AuthenticationStep ==
    last'.op \in AuthenticatedOps =>
        IF Authentic(last'.cred) THEN last'.status # 401
        ELSE last'.status = 401 /\ UNCHANGED tables

\* C8: on every endpoint that depends on get_current_user a request whose
\* cookie is absent, is no signed token, is expired or names a user that is
\* not stored is answered 401, never 403 or 404, whether or not the resource
\* it addresses is stored and whoever owns it, and no table changes.
C8_RejectedBeforeLookup == [][AuthenticationStep]_vars

\* The expired token of a group's creator was refused on the stored group.
C8_ExpiredOwnerRefused ==
    /\ last.op = "delete_scenario_group" /\ last.status = 401
    /\ last.cred.kind = "expired"
    /\ last.id \in DOMAIN scenario_groups
    /\ scenario_groups[last.id].created_by_user_id = last.cred.sub

-----------------------------------------------------------------------------
(* Properties of the requests on scenarios and questions.                   *)

\* The tables of what researchers author: scenarios, groups and their items,
\* studies, and the questions attached to scenarios and studies.
researcher_tables ==
    <<train_configurations, group_tables, study_tables, questions, post_response_questions,
      question_tag_assignments>>

\* A request that changes a stored resource comes from a registered user who
\* has the role the resource asks for.
RoleCheckedStep ==
    (researcher_tables' # researcher_tables /\ last'.op # "create_train_configuration") =>
        Authentic(last'.cred) /\ HasRequiredRole(last')

\* C6: every request that changes a scenario, a scenario group or its items,
\* a study, or a question attached to a scenario or a study is made by an
\* authenticated caller whose role on the resource has been checked;
\* update_train_configuration and the post-response question endpoints
\* included.
C6_MutationsCheckRole == [][RoleCheckedStep]_vars

\* The links that point to a question.
LinksOfQuestion(question_id) ==
    [post |-> {p \in DOMAIN post_response_questions :
                  post_response_questions[p].question_id = question_id},
     pre  |-> {q \in DOMAIN pre_study_questions :
                  pre_study_questions[q].question_id = question_id}]

\* delete_post_response_question removes the link it names and no other, and
\* removes the question only when no other link pointed to it.
DeleteKeepsSharedStep ==
    (last'.op = "delete_post_response_question" /\ last'.status = 204) =>
        /\ DOMAIN post_response_questions' = DOMAIN post_response_questions \ {last'.id2}
        /\ pre_study_questions' = pre_study_questions
        /\ \A q \in DOMAIN questions \ DOMAIN questions' :
               /\ LinksOfQuestion(q).post \subseteq {last'.id2}
               /\ LinksOfQuestion(q).pre = {}

\* C9: delete_post_response_question removes the question (and its tag
\* assignments) only when no post-response or pre-study question other than
\* the deleted one points to it, so no question and no link that a scenario
\* or a study still uses goes with the deleted link.
C9_QuestionKeptWhileReferenced == [][DeleteKeepsSharedStep]_vars

TagUpdateOps == {"update_post_response_question", "update_pre_study_question"}

NoRepeats(L) == \A i, j \in 1..Len(L) : L[i] = L[j] => i = j

\* The question whose tags the request of the reply reconciles.
UpdatedQuestion(reply) ==
    IF reply.op = "update_post_response_question"
    THEN post_response_questions[reply.id2].question_id
    ELSE pre_study_questions[reply.id2].question_id

\* An update with a desired list L without repeats: the question ends with
\* one assignment per tag of L that the library holds, at its position in L;
\* rows of tags in L stay, rows of other tags go, new rows are added, and the
\* rows of other questions are untouched.
ReconciledStep ==
    (/\ last'.op \in TagUpdateOps
     /\ last'.body.tag_ids # NoList /\ NoRepeats(last'.body.tag_ids)) =>
        LET L == last'.body.tag_ids
            before == question_tag_assignments
            after == question_tag_assignments'
        IN
        /\ last'.status = 500 =>
               /\ last'.op = "update_post_response_question"
               /\ Cardinality(StudiesOfScenario(last'.id)) > 1
        /\ last'.status = 200 =>
               LET q == UpdatedQuestion(last')
                   old == {a \in DOMAIN before : before[a].question_id = q}
                   new == {a \in DOMAIN after : after[a].question_id = q}
               IN
               /\ {after[a].tag_id : a \in new} = Elems(L) \cap DOMAIN question_tags
               /\ \A a, b \in new : after[a].tag_id = after[b].tag_id => a = b
               /\ \A a \in new : \E i \in 1..Len(L) :
                      L[i] = after[a].tag_id /\ after[a].order = i - 1
               /\ \A a \in old :
                      IF before[a].tag_id \in Elems(L)
                      THEN a \in new /\ after[a].tag_id = before[a].tag_id
                      ELSE a \notin DOMAIN after
               /\ \A a \in DOMAIN before \ old : a \in DOMAIN after /\ after[a] = before[a]
               /\ DOMAIN after \ DOMAIN before \subseteq new

\* C10: after update_post_response_question or update_pre_study_question
\* with a desired tag-id list L without repeats, the question's assignments
\* are the tags of L stored in the tag library, each with its 0-based
\* position in L as order; the rows of tags not in L are removed, the rows of
\* tags in L are kept with the order rewritten, and ids of L that name no
\* stored tag are skipped and do not fail the request.
C10_TagsReconciled == [][ReconciledStep]_vars

\* An update with a list that names an unknown tag was carried out: a row of
\* the default question was kept at position 2, behind the unknown id, and a
\* row was added.
C10_KeptAddedSkipped ==
    /\ last.op \in TagUpdateOps /\ last.status = 200
    /\ last.body.tag_ids # NoList
    /\ \E i \in 1..Len(last.body.tag_ids) : last.body.tag_ids[i] \notin DOMAIN question_tags
    /\ LET q == UpdatedQuestion(last)
           rows == AssignmentsOfQuestion(question_tag_assignments, q)
       IN /\ \E a \in rows : a <= Len(DEFAULT_TAGS) /\ question_tag_assignments[a].order = 2
          /\ \E a \in rows : a > Len(DEFAULT_TAGS)

-----------------------------------------------------------------------------
(* Tag assignments: scenario 1 with its default question, a group and a     *)
(* study of user 1 that hold the scenario, then requests of user 1 that     *)
(* create and update questions with lists of tag ids, lists that repeat a   *)
(* tag among them.                                                          *)

\* No tag, a default tag, and a default tag listed twice.
RepeatingTagLists == {<<>>, <<1>>, <<2, 2>>}

NextTags ==
    \/ /\ train_configurations = <<>>
       /\ create_train_configuration(Shape(2, 1, <<1, 1>>))
    \/ /\ next_id.scenario_groups <= MaxGroups
       /\ create_scenario_group(Token(1), <<Item(1, 0)>>)
    \/ /\ next_id.studies <= MaxStudies
       /\ create_study(Token(1), 1)
    \/ \E q \in {NoId, 1}, tag_ids \in RepeatingTagLists :
          /\ next_id.pre_study_questions <= MaxPreStudyQuestions
          /\ next_id.question_tag_assignments + Len(tag_ids)
                 <= Len(DEFAULT_TAGS) + MaxAssignments + 1
          /\ create_pre_study_question(Token(1), 1,
                 PreStudyQuestionRequest(q, IF q = NoId THEN "q" ELSE NULL, 0, tag_ids))
    \/ \E q \in PreStudyQuestionIds, tag_ids \in RepeatingTagLists :
          /\ WithinAssignmentBound(QuestionOf(pre_study_questions, q), tag_ids)
          /\ update_pre_study_question(Token(1), 1, q,
                 PreStudyQuestionRequest(NoId, NULL, 0, tag_ids))
    \/ \E q \in {NoId, 2}, tag_ids \in RepeatingTagLists \ {<<>>} :
          /\ next_id.post_response_questions <= MaxPostResponseQuestions + 1
          /\ WithinAssignmentBound(IF q = NoId THEN next_id.questions ELSE q, tag_ids)
          /\ create_post_response_question(Token(1), 1,
                 QuestionRequest(q, IF q = NoId THEN "q" ELSE NULL, FALSE, 1, tag_ids))
    \/ \E p \in PostResponseQuestionIds, tag_ids \in RepeatingTagLists :
          /\ WithinAssignmentBound(QuestionOf(post_response_questions, p), tag_ids)
          /\ update_post_response_question(Token(1), 1, p,
                 QuestionRequest(NoId, "q", FALSE, 0, tag_ids))

SpecTags == Init /\ [][NextTags]_vars

-----------------------------------------------------------------------------
(* Properties of the paths that assign tags to a question.                  *)

TagAssignmentOps ==
    {"create_post_response_question", "create_pre_study_question"} \cup TagUpdateOps

\* The question the request of the reply assigns tags to: the one it links,
\* the one it creates, or the one of the link it updates.
AssignedQuestion(reply) ==
    IF reply.op \in TagUpdateOps THEN UpdatedQuestion(reply)
    ELSE IF reply.body.question_id # NoId THEN reply.body.question_id
    ELSE next_id.questions

\* No (question, tag) pair has two rows.
AssignedAtMostOnce(rows) ==
    \A a, b \in DOMAIN rows :
        (rows[a].question_id = rows[b].question_id /\ rows[a].tag_id = rows[b].tag_id) => a = b

\* The rows a request hands to db.add: no two for one tag, and none for a tag
\* the question has a row for when the request arrives.
NoSecondAssignmentStep ==
    last'.op \in TagAssignmentOps =>
        LET added == last'.body.added IN
        /\ NoRepeats(added)
        /\ added # <<>> =>
               Elems(added) \cap TagsOfQuestion(question_tag_assignments,
                                                AssignedQuestion(last')) = {}
        /\ AssignedAtMostOnce(question_tag_assignments')

\* C11: create_post_response_question, create_pre_study_question,
\* update_post_response_question and update_pre_study_question never add an
\* assignment row for a (question, tag) pair that has a row already or that
\* the same request has added before, whatever the list of tag ids: a list
\* that repeats a tag id, and a create request that links a question which
\* has the tag assigned, included.
C11_NoSecondAssignment == [][NoSecondAssignmentStep]_vars

-----------------------------------------------------------------------------
(* Deleting groups: scenario 1 with a response, groups of both users that   *)
(* share the scenario, the editors and a study that user 1 adds to them,    *)
(* then deletes of the groups by either user.                               *)

SharingGroupIds == 1..(MaxSharingGroups + 1)   \* the last one is never created

NextGroupDeletes ==
    \/ /\ train_configurations = <<>>
       /\ create_train_configuration(Shape(2, 1, <<1, 1>>))
    \/ /\ next_id.user_responses = 1
       /\ create_user_response(UserResponseRequest(1, "s1", Choice(0, 0, "seat", NULL, NULL)))
    \/ \E cred \in Researchers, items \in {<<>>, <<Item(1, 0)>>} :
          /\ next_id.scenario_groups <= MaxSharingGroups
          /\ create_scenario_group(cred, items)
    \/ \E g \in 1..MaxSharingGroups, u \in Users :
          add_scenario_group_editor(Token(1), g, u)
    \/ \E g \in 1..MaxSharingGroups :
          /\ next_id.studies <= MaxStudies
          /\ create_study(Token(1), g)
    \/ \E cred \in Researchers, g \in SharingGroupIds : delete_scenario_group(cred, g)

SpecGroupDeletes == Init /\ [][NextGroupDeletes]_vars

-----------------------------------------------------------------------------
(* Properties of delete_scenario_group.                                     *)

\* A delete of a group that was carried out: the group, its items and its
\* editor links are gone, those of the other groups stay as they are, and so
\* do the scenarios with their responses and questions.
GroupDeleteStep ==
    (last'.op = "delete_scenario_group" /\ last'.status = 204) =>
        LET g == last'.id IN
        /\ g \in DOMAIN scenario_groups
        /\ scenario_groups' = Delete(scenario_groups, {g})
        /\ scenario_group_items' = Delete(scenario_group_items,
               {i \in DOMAIN scenario_group_items :
                   scenario_group_items[i].scenario_group_id = g})
        /\ scenario_group_editors' =
               {e \in scenario_group_editors : e.scenario_group_id # g}
        /\ UNCHANGED <<user_tables, response_tables, question_tables>>

\* C12: delete_scenario_group by the creator removes the group with all of
\* its items and all of its editor links, and leaves every train
\* configuration the items referred to, with its responses and its questions,
\* stored and unchanged.
C12_GroupDeleteCascades == [][GroupDeleteStep]_vars

\* A group was deleted and items went with it; the scenario they referred
\* to, its response, its default question and the items of another group on
\* the same scenario are still stored.
C12_ScenarioSurvivesGroup ==
    /\ last.op = "delete_scenario_group" /\ last.status = 204
    /\ \E i \in 1..(next_id.scenario_group_items - 1) : i \notin DOMAIN scenario_group_items
    /\ 1 \in DOMAIN train_configurations
    /\ \E r \in DOMAIN user_responses : user_responses[r].train_configuration_id = 1
    /\ \E p \in DOMAIN post_response_questions :
           post_response_questions[p].train_configuration_id = 1
    /\ \E i \in DOMAIN scenario_group_items :
           scenario_group_items[i].train_configuration_id = 1

-----------------------------------------------------------------------------
(* Properties of the checks of create_user_response.                        *)

\* The cell of the request lies in the grid of the scenario.
InGrid(response) ==
    /\ 0 <= response.row /\ response.row < train_configurations[response.train_configuration_id].height
    /\ 0 <= response.col /\ response.col < train_configurations[response.train_configuration_id].width

\* Responses are stored or rewritten only for a cell in the grid of a stored
\* scenario.
StoredOnlyInGrid ==
    last'.op = "create_user_response" =>
        LET response == last'.body IN
        /\ (last'.status = 201 \/ user_responses' # user_responses) =>
               /\ response.train_configuration_id \in DOMAIN train_configurations
               /\ InGrid(response)
        /\ last'.status # 201 => UNCHANGED tables

\* The scenario is looked up first and answered 404 when it is not stored;
\* every cell outside the grid of a stored scenario is answered 400.
RejectedWith404Or400 ==
    last'.op = "create_user_response" =>
        LET response == last'.body IN
        IF response.train_configuration_id \notin DOMAIN train_configurations
        THEN last'.status = 404
        ELSE ~InGrid(response) => last'.status = 400

\* A negative row or col is refused with 422 when the request is parsed,
\* before the scenario is looked up; then the scenario is looked up (404), and
\* then a row or col at or beyond the grid's height or width is answered 400.
RejectedWith422Or404Or400 ==
    last'.op = "create_user_response" =>
        LET response == last'.body IN
        IF response.row < 0 \/ response.col < 0 THEN last'.status = 422
        ELSE IF response.train_configuration_id \notin DOMAIN train_configurations
        THEN last'.status = 404
        ELSE IF ~InGrid(response) THEN last'.status = 400
        ELSE last'.status = 201

\* C13 as stated: a response is stored or updated only for a stored scenario
\* and a cell with 0 <= row < height and 0 <= col < width; an unknown
\* scenario is answered 404, checked first, a row or col out of that range
\* 400, and the stored responses are unchanged in both cases.
C13_RejectedWith404Or400 == [][StoredOnlyInGrid /\ RejectedWith404Or400]_vars

\* C13, amended: as stated for a row or col at or beyond the height or the
\* width; a negative row or col is answered 422 instead, and before the
\* scenario is looked up, so also for an unknown scenario.
C13_RejectedBeforeStore == [][StoredOnlyInGrid /\ RejectedWith422Or404Or400]_vars

\* A cell outside the grid was answered 400 for a (scenario, session) pair
\* that has a stored response, which still lies in the grid.
C13_OutOfGridKeepsStored ==
    /\ last.op = "create_user_response" /\ last.status = 400
    /\ Truthy(last.body.user_session_id)
    /\ \E r \in ResponsesOfPair(user_responses, last.body.train_configuration_id,
                                last.body.user_session_id) :
           InGrid(user_responses[r])


\* A submission without a session id that was carried out: one new row with
\* the values of the request, and every stored row as it was.
AnonymousInsertStep ==
    (/\ last'.op = "create_user_response" /\ last'.status = 201
     /\ last'.body.user_session_id = NULL) =>
        /\ last'.id \notin DOMAIN user_responses
        /\ user_responses' = Insert(user_responses, last'.id, last'.body)
        /\ Cardinality(DOMAIN user_responses') = Cardinality(DOMAIN user_responses) + 1

\* C14: without a session id create_user_response has no upsert key: every
\* call that is carried out inserts a new row and changes no stored row, so n
\* such calls add exactly n rows, also when their values are all the same.
C14_AnonymousAlwaysInserts == [][AnonymousInsertStep]_vars

\* Two submissions without a session id and with the same values were
\* carried out: two rows that differ in nothing but their id.
C14_TwoIdenticalRows ==
    /\ last.op = "create_user_response" /\ last.status = 201
    /\ last.body.user_session_id = NULL
    /\ \E r \in DOMAIN user_responses :
           r # last.id /\ user_responses[r] = user_responses[last.id]

-----------------------------------------------------------------------------
(* Signing in: main.py, send_verification, verify_link and verify_token.    *)
(* The clock counts minutes.  The token of a magic link is modelled by the  *)
(* id of its record (email_verifications.token is unique); the 6-digit code *)
(* is a random draw, which may repeat.                                      *)

\* timedelta(minutes=30)
ExpiryMinutes == 30

\* The step of the clock.
TickMinutes == 15

\* str.lower() and str.strip() on the strings of the requests.
Lower(s) == CASE s = " A@X " -> " a@x " [] s = "A@X" -> "a@x" [] OTHER -> s
Strip(s) == CASE s = " A@X " -> "A@X" [] s = " a@x " -> "a@x" [] s = " 111111 " -> "111111"
              [] OTHER -> s

\* A normalisation that leaves the address as it was typed.
AsTyped(s) == s

\* request.email.lower().strip()
NormaliseEmail(s) == Strip(Lower(s))

\* generate_verification_code: the codes a draw may give.
Codes == {"111111", "222222"}

VerificationTypes == {"magic_link", "token", "both"}

\* A test that a used record passes as well.
UsableUntilExpiry(verification) == verification.expires_at > now

\* The record is neither used nor expired.
Usable(verification) == verification.expires_at > now /\ verification.used_at = NoTime

\* A reply that reports the mail as sent whether it was or not.
StatusSent(delivered) == 200

\* The reply of send_verification: 500 when send_verification_email raised.
SendStatus(delivered) == IF delivered THEN 200 ELSE 500

\* POST /auth/send-verification.  code is the code drawn; delivered tells
\* whether send_verification_email returns or raises.  The record is
\* committed before the mail is sent.
send_verification(request, code, delivered) ==
    LET op == "send_verification"
        email == NormaliseEmail(request.email)
        type == request.verification_type
        id == next_id.email_verifications
    IN
    IF type \notin VerificationTypes THEN Answer(op, 422, NoCred, NoId, NoId, request)
    ELSE
      /\ email_verifications' = Insert(email_verifications, id,
             [email |-> email,
              token |-> IF type \in {"magic_link", "both"} THEN id ELSE NoId,
              verification_code |-> IF type \in {"token", "both"} THEN code ELSE NULL,
              expires_at |-> now + ExpiryMinutes,
              used_at |-> NoTime,
              verification_type |-> type])
      /\ next_id' = [next_id EXCEPT !.email_verifications = id + 1]
      /\ outbox' = IF delivered THEN outbox \cup {id} ELSE outbox
      /\ last' = Reply(op, SendStatus(delivered), NoCred, NoId, NoId, request)
      /\ UNCHANGED <<users, response_tables, group_tables, study_tables, question_tables,
                     now, inflight, answer_tables>>

UserIdByEmail(email) ==
    IF \E u \in DOMAIN users : users[u].email = email
    THEN CHOOSE u \in DOMAIN users : users[u].email = email
    ELSE NoId

\* The common end of verify_link and verify_token: mark the record as used,
\* get or create the user of the address, commit, and set the session cookie
\* to a token signed for the user.
Authenticate(op, id, email, request) ==
    LET found == UserIdByEmail(email)
        user == IF found = NoId THEN next_id.users ELSE found
    IN
    /\ email_verifications' = Update(email_verifications, id,
           [email_verifications[id] EXCEPT !.used_at = now])
    /\ users' = IF found = NoId THEN Insert(users, user, [email |-> email]) ELSE users
    /\ next_id' = [next_id EXCEPT !.users = IF found = NoId THEN @ + 1 ELSE @]
    /\ last' = Reply(op, 200, NoCred, user, NoId,
                     [request |-> request, session_token |-> [kind |-> "token", sub |-> user]])
    /\ UNCHANGED <<response_tables, group_tables, study_tables, question_tables, world,
                   inflight, answer_tables>>

\* A request that is refused: no cookie is set.
Unverified(op, status, request) ==
    Answer(op, status, NoCred, NoId, NoId, [request |-> request, session_token |-> NoCred])

\* GET /auth/verify-link?token=
verify_link(token) ==
    LET op == "verify_link"
        found == {v \in DOMAIN email_verifications :
                     /\ email_verifications[v].token # NoId
                     /\ email_verifications[v].token = token
                     /\ Usable(email_verifications[v])}
    IN
    IF Cardinality(found) > 1 THEN Unverified(op, 500, token)
    ELSE IF found = {} THEN Unverified(op, 400, token)
    ELSE LET v == CHOOSE v \in found : TRUE IN
         Authenticate(op, v, email_verifications[v].email, token)

\* POST /auth/verify-token, the handler verify_token of main.py (the name
\* verify_token is taken by utils/auth.py).  request is a VerifyTokenRequest.
\* scalar_one_or_none raises when two usable records of the address carry
\* the code.
verify_token_code(request) ==
    LET op == "verify_token"
        email == NormaliseEmail(request.email)
        code == Strip(request.verification_code)
        found == {v \in DOMAIN email_verifications :
                     /\ email_verifications[v].email = email
                     /\ email_verifications[v].verification_code # NULL
                     /\ email_verifications[v].verification_code = code
                     /\ Usable(email_verifications[v])}
    IN
    IF Cardinality(found) > 1 THEN Unverified(op, 500, request)
    ELSE IF found = {} THEN Unverified(op, 400, request)
    ELSE Authenticate(op, CHOOSE v \in found : TRUE, email, request)

\* Time passes.
Tick ==
    /\ now < MaxTicks * TickMinutes
    /\ now' = now + TickMinutes
    /\ UNCHANGED <<tables, outbox, inflight, last>>

-----------------------------------------------------------------------------
(* Signing in: from a store without users, any requests for verifications,  *)
(* magic links and codes, the mail delivered or not, while time passes.     *)

InitSignIn == InitialStore(0)

\* Every type of verification for one address, typed with capitals and
\* blanks; a code for the same address typed plainly and for another
\* address; a type the schema refuses.
SendVerificationRequests ==
    {[email |-> " A@X ", verification_type |-> t] : t \in VerificationTypes}
        \cup {[email |-> "a@x", verification_type |-> "token"],
              [email |-> "b@x", verification_type |-> "token"],
              [email |-> "b@x", verification_type |-> "sms"]}

VerifyTokenRequest(email, code) == [email |-> email, verification_code |-> code]

VerifyTokenRequests ==
    {VerifyTokenRequest("a@x", "111111"), VerifyTokenRequest(" A@X ", " 111111 "),
     VerifyTokenRequest("a@x", "222222"), VerifyTokenRequest("b@x", "111111")}

VerificationTokens == 1..(MaxVerifications + 1)   \* the last one is never issued

NextSignIn ==
    \/ \E request \in SendVerificationRequests, code \in Codes, delivered \in BOOLEAN :
          /\ next_id.email_verifications <= MaxVerifications
          /\ send_verification(request, code, delivered)
    \/ \E token \in VerificationTokens : verify_link(token)
    \/ \E request \in VerifyTokenRequests : verify_token_code(request)
    \/ Tick

SpecSignIn == InitSignIn /\ [][NextSignIn]_vars

-----------------------------------------------------------------------------
(* Properties of signing in.                                                *)

SignInOps == {"verify_link", "verify_token"}

\* The step is a request's, not the clock's.
RequestStep == now' = now

\* The record carries what the request of the reply presents: the token, or
\* the address (lower-cased and trimmed) and the code (trimmed).
Presents(reply, verification) ==
    IF reply.op = "verify_link"
    THEN verification.token # NoId /\ verification.token = reply.body.request
    ELSE /\ verification.email = Strip(Lower(reply.body.request.email))
         /\ verification.verification_code # NULL
         /\ verification.verification_code = Strip(reply.body.request.verification_code)

Presented(reply) ==
    {v \in DOMAIN email_verifications : Presents(reply, email_verifications[v])}

\* A record is issued unused, to expire 30 minutes later; a used record is
\* never written again.
IssuedAndKeptStep ==
    /\ (RequestStep /\ last'.op = "send_verification" /\ last'.status \in {200, 500}) =>
           \E v \in DOMAIN email_verifications' \ DOMAIN email_verifications :
               /\ email_verifications'[v].used_at = NoTime
               /\ email_verifications'[v].expires_at = now + 30
    /\ \A v \in DOMAIN email_verifications :
           email_verifications[v].used_at # NoTime =>
               v \in DOMAIN email_verifications'
                   /\ email_verifications'[v] = email_verifications[v]

\* A verification succeeds on one record that the request presents and that
\* is unused and unexpired, and marks that record, and no other, as used; a
\* verification that does not succeed changes nothing.
ConsumesStep ==
    (RequestStep /\ last'.op \in SignInOps) =>
        /\ last'.status = 200 =>
               \E v \in Presented(last') :
                   /\ email_verifications[v].used_at = NoTime
                   /\ email_verifications[v].expires_at > now
                   /\ email_verifications'[v].used_at # NoTime
                   /\ \A w \in DOMAIN email_verifications' :
                          w # v => /\ w \in DOMAIN email_verifications
                                   /\ email_verifications'[w] = email_verifications[w]
        /\ last'.status # 200 => UNCHANGED tables

\* An attempt with the token, or the address and code, of a used record is
\* rejected with 400.
ReplayRejectedStep ==
    (RequestStep /\ last'.op \in SignInOps) =>
        ((\E v \in Presented(last') : email_verifications[v].used_at # NoTime) =>
             last'.status = 400)

\* An attempt that presents no unused, unexpired record is rejected with 400.
NothingUsableRejectedStep ==
    (RequestStep /\ last'.op \in SignInOps) =>
        ((\A v \in Presented(last') :
              email_verifications[v].used_at # NoTime \/ email_verifications[v].expires_at <= now)
            => last'.status = 400)

\* C15 as stated: verify_link and verify_token succeed only for a record that
\* is unused and whose expires_at, 30 minutes after it was issued, is in the
\* future; a success sets used_at; every later attempt with the token or with
\* the address and code of the record is rejected with 400, for a record of
\* type both whichever of the two was used first.
C15_UsedOnceReplayRejected == [][IssuedAndKeptStep /\ ConsumesStep /\ ReplayRejectedStep]_vars

\* C15, amended: as stated, but a later attempt with the address and code of
\* a used record is rejected only when no other unused, unexpired record of
\* the address carries the same code.
C15_UsedOnce == [][IssuedAndKeptStep /\ ConsumesStep /\ NothingUsableRejectedStep]_vars

\* The code of a record of type both was refused after the record had been
\* used, before its expiry.
C15_UsedBothRefused ==
    /\ last.op = "verify_token" /\ last.status = 400
    /\ \E v \in Presented(last) :
           /\ email_verifications[v].verification_type = "both"
           /\ email_verifications[v].used_at # NoTime
           /\ email_verifications[v].expires_at > now


\* Two addresses are the same after lower-casing and trimming.
SameAddress(a, b) == Strip(Lower(a)) = Strip(Lower(b))

UsersOfAddress(email) == {u \in DOMAIN users : SameAddress(users[u].email, email)}

OneUserPerAddress == \A u \in DOMAIN users : UsersOfAddress(users[u].email) = {u}

\* A successful verification answers with the user of the record's address:
\* the stored one when there is one, and otherwise a new one, the only user
\* it creates.  No other request creates, changes or removes a user.
GetOrCreateUserStep ==
    IF RequestStep /\ last'.op \in SignInOps /\ last'.status = 200
    THEN \E v \in Presented(last') :
             LET email == email_verifications[v].email
                 known == UsersOfAddress(email)
             IN
             /\ email_verifications[v].used_at = NoTime
             /\ email_verifications'[v].used_at # NoTime
             /\ last'.body.session_token.sub = last'.id
             /\ IF known # {}
                THEN last'.id \in known /\ users' = users
                ELSE /\ last'.id \notin DOMAIN users
                     /\ DOMAIN users' = DOMAIN users \cup {last'.id}
                     /\ SameAddress(users'[last'.id].email, email)
                     /\ \A u \in DOMAIN users : users'[u] = users[u]
    ELSE users' = users

\* C16: there is at most one user per address, compared after lower-casing
\* and trimming; the first successful verification for an address creates
\* its user, every later one answers with the same user id, and neither a
\* failed verification nor send_verification creates a user.
C16_OneUserPerAddress == [][GetOrCreateUserStep /\ OneUserPerAddress']_vars

\* A second verification for an address, typed with capitals and blanks,
\* succeeded and answered with the one user of the address.
C16_SecondSignInSameUser ==
    /\ last.op = "verify_token" /\ last.status = 200
    /\ last.body.request.email = " A@X "
    /\ Cardinality({v \in DOMAIN email_verifications :
                       /\ email_verifications[v].email = "a@x"
                       /\ email_verifications[v].used_at # NoTime}) = 2
    /\ UsersOfAddress("a@x") = {last.id}


\* The unused, unexpired records that the request of the reply presents.
PresentedUsable(reply) ==
    {v \in Presented(reply) :
        email_verifications[v].used_at = NoTime /\ email_verifications[v].expires_at > now}

\* send_verification stores one record, unused and unexpired, for the
\* normalised address and changes nothing else, whether the mail is sent or
\* not; it answers 500 exactly when the mail was not sent.
StoredThoughUnsentStep ==
    (RequestStep /\ last'.op = "send_verification" /\ last'.status \in {200, 500}) =>
        \E v \in DOMAIN email_verifications' \ DOMAIN email_verifications :
            /\ DOMAIN email_verifications' = DOMAIN email_verifications \cup {v}
            /\ \A w \in DOMAIN email_verifications :
                   email_verifications'[w] = email_verifications[w]
            /\ email_verifications'[v].email = Strip(Lower(last'.body.email))
            /\ email_verifications'[v].used_at = NoTime
            /\ email_verifications'[v].expires_at > now
            /\ (last'.status = 500) = (v \notin outbox')
            /\ users' = users

\* A verification that presents an unused, unexpired record whose mail was
\* never sent succeeds and sets the session cookie; only an address and code
\* that two such records share are answered 500.
UnsentStillVerifiesStep ==
    (RequestStep /\ last'.op \in SignInOps) =>
        ((\E v \in PresentedUsable(last') : v \notin outbox) =>
             IF last'.op = "verify_token" /\ Cardinality(PresentedUsable(last')) > 1
             THEN last'.status = 500
             ELSE /\ last'.status = 200
                  /\ last'.body.session_token = Token(last'.id)
                  /\ last'.id \in DOMAIN users')

\* An unused record is never changed or removed except by the verification
\* that consumes it.
UnusedKeptStep ==
    \A v \in DOMAIN email_verifications :
        /\ v \in DOMAIN email_verifications'
        /\ email_verifications'[v] # email_verifications[v] =>
               last'.op \in SignInOps /\ last'.status = 200

-----------------------------------------------------------------------------
(* Question links: two scenarios with their default questions and two       *)
(* studies of user 1, then requests of user 1 that create questions, link   *)
(* stored questions to the scenarios and to the studies, a question already *)
(* linked among them, and delete links.                                     *)

LinkedQuestionIds == {NoId, 1, 2}

\* Both scenarios and both studies are stored.
LinksSetUp == next_id.train_configurations > MaxConfigs /\ next_id.studies > MaxLinkStudies

NextLinks ==
    \/ /\ next_id.train_configurations <= MaxConfigs
       /\ create_train_configuration(Shape(2, 1, <<1, 1>>))
    \/ /\ next_id.train_configurations > MaxConfigs
       /\ next_id.scenario_groups <= MaxGroups
       /\ create_scenario_group(Token(1), <<>>)
    \/ /\ next_id.studies <= MaxLinkStudies
       /\ create_study(Token(1), 1)
    \/ \E study_id \in 1..MaxLinkStudies, q \in LinkedQuestionIds :
          /\ LinksSetUp
          /\ next_id.pre_study_questions <= MaxLinks
          /\ create_pre_study_question(Token(1), study_id,
                 PreStudyQuestionRequest(q, IF q = NoId THEN "q" ELSE NULL, 0, NoList))
    \/ \E config_id \in 1..MaxConfigs, q \in LinkedQuestionIds :
          /\ LinksSetUp
          /\ next_id.post_response_questions <= MaxConfigs + MaxLinks
          /\ create_post_response_question(Token(1), config_id,
                 QuestionRequest(q, IF q = NoId THEN "q" ELSE NULL, FALSE, 1, NoList))
    \/ \E p \in 1..(MaxConfigs + MaxLinks) :
          /\ LinksSetUp
          /\ delete_post_response_question(Token(1), 1, p)

SpecLinks == Init /\ [][NextLinks]_vars

-----------------------------------------------------------------------------
(* Properties of the question links.                                        *)

LinkOps == {"create_post_response_question", "create_pre_study_question"}

AttachedToStudy(question_id, study_id) ==
    \E q \in DOMAIN pre_study_questions :
        /\ pre_study_questions[q].question_id = question_id
        /\ pre_study_questions[q].study_id = study_id

\* The request of the reply links a stored question to the scenario, or to
\* the study, that it is already linked to.
AttachesAgain(reply) ==
    /\ reply.op \in LinkOps
    /\ reply.cred = Token(1)
    /\ reply.body.question_id # NoId
    /\ IF reply.op = "create_post_response_question"
       THEN AttachedToScenario(reply.body.question_id, reply.id)
       ELSE /\ reply.id \in DOMAIN studies
            /\ AttachedToStudy(reply.body.question_id, reply.id)

AtMostOneLinkPerPair ==
    /\ \A p1, p2 \in DOMAIN post_response_questions :
           (/\ post_response_questions[p1].question_id = post_response_questions[p2].question_id
            /\ post_response_questions[p1].train_configuration_id
                   = post_response_questions[p2].train_configuration_id) => p1 = p2
    /\ \A q1, q2 \in DOMAIN pre_study_questions :
           (/\ pre_study_questions[q1].question_id = pre_study_questions[q2].question_id
            /\ pre_study_questions[q1].study_id = pre_study_questions[q2].study_id) => q1 = q2

\* A second link of a pair is refused, by the handler's check for a study
\* (400) and by the unique constraint for a scenario (500), and nothing
\* stored changes.
AttachAgainRefusedStep ==
    AttachesAgain(last') =>
        /\ last'.status = IF last'.op = "create_pre_study_question" THEN 400 ELSE 500
        /\ UNCHANGED tables

\* C18: there is at most one PostResponseQuestion per (question, scenario)
\* pair and at most one PreStudyQuestion per (question, study) pair; a
\* request that attaches a question to a scenario or a study it is already
\* attached to is rejected and leaves all stored question links unchanged.
C18_OneLinkPerPair == [][AtMostOneLinkPerPair' /\ AttachAgainRefusedStep]_vars

\* A question linked to both scenarios was refused a second link to one of
\* them.
C18_SecondLinkRefused ==
    /\ last.op = "create_post_response_question" /\ last.status = 500
    /\ last.body.question_id # NoId
    /\ \A config_id \in 1..MaxConfigs : AttachedToScenario(last.body.question_id, config_id)


-----------------------------------------------------------------------------
(* Answers: scenario 1 with its default question (every default tag), a    *)
(* seat selection, a study that holds the scenario and a second question    *)
(* that requires free text and has tag 1 only; then answers to both         *)
(* questions with tags that are assigned, unassigned, unknown and repeated, *)
(* while the tags of the second question are changed and it is deleted.     *)

QuestionResponse(pid, text, tag_ids) ==
    [post_response_question_id |-> pid, free_text_response |-> text,
     selected_tag_ids |-> tag_ids]

\* Tag 2 is in the library and not assigned to question 2; tag 99 is unknown;
\* post-response question 3 is never created.
AnswerLists ==
    {<<>>,
     <<QuestionResponse(2, "text", <<1, 2, 99>>)>>,
     <<QuestionResponse(1, NULL, <<2, 1>>), QuestionResponse(2, "text", NoList)>>,
     <<QuestionResponse(2, " ", <<1>>)>>,
     <<QuestionResponse(1, NULL, <<1, 1>>)>>,
     <<QuestionResponse(1, NULL, <<1, 1>>), QuestionResponse(3, NULL, <<>>)>>,
     <<QuestionResponse(1, "text", <<1>>), QuestionResponse(3, NULL, NoList)>>,
     <<QuestionResponse(1, "text", <<1>>), QuestionResponse(2, " ", NoList)>>}

AnswersSetUp == next_id.post_response_questions > 2

NextAnswers ==
    \/ /\ train_configurations = <<>>
       /\ create_train_configuration(Shape(2, 1, <<1, 1>>))
    \/ /\ next_id.train_configurations > 1 /\ next_id.user_responses = 1
       /\ create_user_response(UserResponseRequest(1, "s1", Choice(0, 0, "seat", NULL, NULL)))
    \/ /\ next_id.user_responses > 1 /\ next_id.scenario_groups = 1
       /\ create_scenario_group(Token(1), <<Item(1, 0)>>)
    \/ /\ next_id.scenario_groups > 1 /\ next_id.studies = 1
       /\ create_study(Token(1), 1)
    \/ /\ next_id.studies > 1 /\ next_id.post_response_questions = 2
       /\ create_post_response_question(Token(1), 1,
              [QuestionRequest(NoId, "q", FALSE, 1, <<1>>) EXCEPT !.free_text_required = TRUE])
    \/ \E response_id \in 1..2, responses \in AnswerLists :
          /\ AnswersSetUp
          /\ next_id.question_responses + Len(responses) <= MaxAnswers + 1
          /\ submit_question_responses(response_id, responses)
    \/ \E tag_ids \in {<<2>>, <<1>>} :
          /\ AnswersSetUp
          /\ WithinAssignmentBound(QuestionOf(post_response_questions, 2), tag_ids)
          /\ update_post_response_question(Token(1), 1, 2,
                 [QuestionRequest(NoId, "q", FALSE, 1, tag_ids) EXCEPT !.free_text_required = TRUE])
    \/ /\ AnswersSetUp
       /\ delete_post_response_question(Token(1), 1, 2)

SpecAnswers == Init /\ [][NextAnswers]_vars

-----------------------------------------------------------------------------
(* Properties of the answers.                                               *)

\* The positions of the selected tag ids of an answer that name a stored tag
\* assigned to the question of the answered post-response question.
ValidSelections(response_data) ==
    LET L == response_data.selected_tag_ids
        qid == post_response_questions[response_data.post_response_question_id].question_id
    IN IF L = NoList THEN {}
       ELSE {i \in 1..Len(L) :
                /\ L[i] \in DOMAIN question_tags
                /\ \E a \in DOMAIN question_tag_assignments :
                       /\ question_tag_assignments[a].question_id = qid
                       /\ question_tag_assignments[a].tag_id = L[i]}

\* The tags stored with an answer.
StoredSelections(rows, answer) ==
    {rows[t].tag_id : t \in {u \in DOMAIN rows : rows[u].question_response_id = answer}}

\* The request names a stored seat selection and stored questions, gives the
\* free text its questions require, and selects no valid tag twice in an
\* answer.
WellFormedSubmission(reply) ==
    /\ reply.id \in DOMAIN user_responses
    /\ \A i \in 1..Len(reply.body.responses) :
           LET response_data == reply.body.responses[i]
               pid == response_data.post_response_question_id
           IN /\ pid \in DOMAIN post_response_questions
              /\ post_response_questions[pid].free_text_required =>
                     response_data.free_text_response \notin {NULL, "", " "}
              /\ \A j, k \in ValidSelections(response_data) :
                     response_data.selected_tag_ids[j] = response_data.selected_tag_ids[k]
                         => j = k

\* A submission that is carried out stores one row per answer, with its free
\* text, and for each answer one tag row for every selected tag that is
\* stored and assigned to the answer's question, and no other; a well-formed
\* submission is carried out whatever else its tag lists name; a submission
\* that is refused stores nothing.
SelectedTagsStoredStep ==
    last'.op = "submit_question_responses" =>
        /\ WellFormedSubmission(last') => last'.status = 200
        /\ last'.status # 200 => UNCHANGED tables
        /\ last'.status = 200 =>
               LET responses == last'.body.responses
                   ids == last'.body.ids
               IN
               /\ Len(ids) = Len(responses)
               /\ DOMAIN question_responses' = DOMAIN question_responses \cup Elems(ids)
               /\ \A r \in DOMAIN question_responses :
                      question_responses'[r] = question_responses[r]
               /\ \A t \in DOMAIN question_response_tags :
                      /\ t \in DOMAIN question_response_tags'
                      /\ question_response_tags'[t] = question_response_tags[t]
               /\ \A t \in DOMAIN question_response_tags' \ DOMAIN question_response_tags :
                      question_response_tags'[t].question_response_id \in Elems(ids)
               /\ \A i \in 1..Len(responses) :
                      /\ ids[i] \notin DOMAIN question_responses
                      /\ \A j \in 1..Len(ids) : ids[j] = ids[i] => j = i
                      /\ question_responses'[ids[i]] =
                             [user_response_id |-> last'.id,
                              post_response_question_id |-> responses[i].post_response_question_id,
                              free_text_response |-> responses[i].free_text_response]
                      /\ StoredSelections(question_response_tags', ids[i]) =
                             {responses[i].selected_tag_ids[k] : k \in ValidSelections(responses[i])}

\* C19: submit_question_responses stores a selected-tag row only for a tag
\* that exists and is assigned, when the request is served, to the question
\* of the answered post-response question; selected ids that are unknown or
\* not assigned to that question are skipped without failing the request,
\* and the free text and the valid tags of the answer are stored.
C19_OnlyAssignedTagsStored == [][SelectedTagsStoredStep]_vars

\* An answer that selected an assigned tag, a tag of the library that is not
\* assigned to its question and an unknown id was stored with its free text
\* and the assigned tag alone.
C19_UnassignedAndUnknownSkipped ==
    /\ last.op = "submit_question_responses" /\ last.status = 200
    /\ Len(last.body.responses) = 1
    /\ LET response_data == last.body.responses[1]
           L == response_data.selected_tag_ids
           answer == last.body.ids[1]
       IN /\ L # NoList
          /\ \E i \in 1..Len(L) : L[i] \notin DOMAIN question_tags
          /\ \E i \in 1..Len(L) : L[i] \in DOMAIN question_tags /\ i \notin ValidSelections(response_data)
          /\ Cardinality(StoredSelections(question_response_tags, answer)) = 1
          /\ question_responses[answer].free_text_response = "text"


-----------------------------------------------------------------------------
(* Statistics: main.py, get_response_statistics.                            *)

\* A query that selects the responses of every scenario.
ResponsesOfGender(config_id, gender) ==
    {r \in DOMAIN user_responses : Truthy(gender) => user_responses[r].gender = gender}

\* The query: the responses of the scenario, of the given gender when the
\* parameter is truthy.
ResponsesOfScenario(config_id, gender) ==
    {r \in DOMAIN user_responses :
        /\ user_responses[r].train_configuration_id = config_id
        /\ Truthy(gender) => user_responses[r].gender = gender}

\* f"{response.row},{response.col}"
HeatmapKey(response) == ToString(response.row) \o "," \o ToString(response.col)

\* heatmap[key] = heatmap.get(key, 0) + 1
CountKey(heatmap, key) ==
    [k \in DOMAIN heatmap \cup {key} |->
        IF k = key THEN (IF key \in DOMAIN heatmap THEN heatmap[key] ELSE 0) + 1
        ELSE heatmap[k]]

\* The loop that builds the heatmap, over the responses not yet counted.
RECURSIVE BuildHeatmap(_, _)
BuildHeatmap(responses, heatmap) ==
    IF responses = {} THEN heatmap
    ELSE LET r == CHOOSE r \in responses : \A o \in responses : r <= o IN
         BuildHeatmap(responses \ {r}, CountKey(heatmap, HeatmapKey(user_responses[r])))

\* GET /train-configurations/{config_id}/statistics?gender=
get_response_statistics(config_id, gender) ==
    LET op == "get_response_statistics"
        responses == ResponsesOfScenario(config_id, gender)
    IN
    IF config_id \notin DOMAIN train_configurations
    THEN Answer(op, 404, NoCred, config_id, NoId, [gender |-> gender])
    ELSE Answer(op, 200, NoCred, config_id, NoId,
             [gender |-> gender,
              total_responses |-> Cardinality(responses),
              seat_selections |->
                  Cardinality({r \in responses : user_responses[r].selection_type = "seat"}),
              floor_selections |->
                  Cardinality({r \in responses : user_responses[r].selection_type = "floor"}),
              selection_heatmap |-> BuildHeatmap(responses, <<>>)])

-----------------------------------------------------------------------------
(* Statistics of the seat selections of two scenarios with a 2x3 grid:      *)
(* selections of seats and floor cells, with and without a gender, one of   *)
(* them moved by its session, read per scenario with and without a gender.  *)

CountedChoices ==
    {Choice(0, 0, "seat", NULL, NULL), Choice(0, 0, "seat", NULL, "man"),
     Choice(1, 2, "floor", NULL, "woman"), Choice(1, 0, "floor", NULL, "man")}

\* No parameter, an empty one, and two genders.
GenderFilters == {NULL, "", "man", "woman"}

NextStatistics ==
    \/ /\ next_id.train_configurations <= MaxConfigs
       /\ create_train_configuration(Shape(2, 3, <<3, 3>>))
    \/ \E config_id \in 1..MaxConfigs, choice \in CountedChoices :
          /\ next_id.user_responses <= MaxCounted
          /\ create_user_response(UserResponseRequest(config_id, NULL, choice))
    \/ /\ next_id.user_responses <= MaxCounted
       /\ create_user_response(UserResponseRequest(1, "s1", Choice(1, 2, "floor", NULL, "woman")))
    \/ create_user_response(UserResponseRequest(1, "s1", Choice(0, 0, "seat", NULL, "man")))
    \/ \E config_id \in ConfigIds, gender \in GenderFilters :
          get_response_statistics(config_id, gender)

SpecStatistics == Init /\ [][NextStatistics]_vars

-----------------------------------------------------------------------------
(* Properties of the statistics.                                            *)

\* The name "row,col" of the cells of the 2x3 grid.
CellName(row, col) ==
    CASE row = 0 /\ col = 0 -> "0,0" [] row = 0 /\ col = 1 -> "0,1" [] row = 0 /\ col = 2 -> "0,2"
      [] row = 1 /\ col = 0 -> "1,0" [] row = 1 /\ col = 1 -> "1,1" [] row = 1 /\ col = 2 -> "1,2"

\* The stored responses of the scenario, of the gender when one is given.
Counted(config_id, gender) ==
    {r \in DOMAIN user_responses :
        /\ user_responses[r].train_configuration_id = config_id
        /\ gender \in {NULL, ""} \/ user_responses[r].gender = gender}

CountedAt(config_id, gender, row, col) ==
    {r \in Counted(config_id, gender) :
        user_responses[r].row = row /\ user_responses[r].col = col}

RECURSIVE SumOfValues(_)
SumOfValues(heatmap) ==
    IF DOMAIN heatmap = {} THEN 0
    ELSE LET k == CHOOSE k \in DOMAIN heatmap : TRUE IN
         heatmap[k] + SumOfValues([j \in DOMAIN heatmap \ {k} |-> heatmap[j]])

StatisticsCountStep ==
    (last'.op = "get_response_statistics" /\ last'.id \in DOMAIN train_configurations) =>
        LET stats == last'.body
            counted == Counted(last'.id, stats.gender)
        IN
        /\ last'.status = 200
        /\ stats.total_responses = Cardinality(counted)
        /\ stats.seat_selections =
               Cardinality({r \in counted : user_responses[r].selection_type = "seat"})
        /\ stats.floor_selections =
               Cardinality({r \in counted : user_responses[r].selection_type = "floor"})
        /\ stats.seat_selections + stats.floor_selections = stats.total_responses
        /\ \A row \in 0..1, col \in 0..2 :
               LET n == Cardinality(CountedAt(last'.id, stats.gender, row, col)) IN
               IF n = 0 THEN CellName(row, col) \notin DOMAIN stats.selection_heatmap
               ELSE /\ CellName(row, col) \in DOMAIN stats.selection_heatmap
                    /\ stats.selection_heatmap[CellName(row, col)] = n
        /\ DOMAIN stats.selection_heatmap \subseteq {CellName(row, col) : row \in 0..1, col \in 0..2}
        /\ SumOfValues(stats.selection_heatmap) = stats.total_responses
        /\ UNCHANGED tables

\* C20: for every scenario and every set of stored responses,
\* get_response_statistics returns total_responses equal to the number of
\* responses of the scenario (of the given gender when a gender is given; an
\* empty parameter gives none), seat_selections and floor_selections equal
\* to the number of those of each selection type, which add up to
\* total_responses, and a heatmap whose entry "row,col" is the number of
\* those responses at the cell, without an entry for a cell that has none,
\* and whose values add up to total_responses.
C20_StatisticsCount == [][StatisticsCountStep]_vars

\* Two seat selections at (0,0) and one floor selection at (1,2) of a
\* scenario, read without a gender.
C20_TwoSeatsOneFloor ==
    /\ last.op = "get_response_statistics" /\ last.status = 200
    /\ last.body.gender = NULL
    /\ last.body.total_responses = 3
    /\ last.body.seat_selections = 2
    /\ last.body.floor_selections = 1
    /\ last.body.selection_heatmap = ("0,0" :> 2) @@ ("1,2" :> 1)


-----------------------------------------------------------------------------
(* Properties of the tile matrices.                                         *)

ScenarioOps == {"create_train_configuration", "update_train_configuration"}

\* The matrix has height rows of width tiles each.
WellShaped(config) ==
    /\ Len(config.tiles) = config.height
    /\ \A i \in DOMAIN config.tiles : config.tiles[i] = config.width

EveryScenarioWellShaped ==
    \A c \in DOMAIN train_configurations : WellShaped(train_configurations[c])

\* A create or update whose matrix does not match its height and width
\* fails and stores nothing; it is answered 400 when the request passes the
\* schema and, for an update, names a stored scenario.
MisshapenRefusedStep ==
    (last'.op \in ScenarioOps /\ ~WellShaped(last'.body)) =>
        /\ last'.status \in {400, 404, 422}
        /\ UNCHANGED tables
        /\ (/\ last'.body.height > 0 /\ last'.body.width > 0
            /\ last'.op = "update_train_configuration" => last'.id \in DOMAIN train_configurations)
               => last'.status = 400

-----------------------------------------------------------------------------
(* Required questions: scenario 1, held by up to two groups of user 1 with  *)
(* up to two studies, and requests of user 1 that create and update         *)
(* post-response questions of the scenario, required or not.                *)

RequiredFlags == BOOLEAN

NextRequired ==
    \/ /\ train_configurations = <<>>
       /\ create_train_configuration(Shape(2, 1, <<1, 1>>))
    \/ /\ next_id.scenario_groups <= MaxSharingGroups
       /\ create_scenario_group(Token(1), <<Item(1, 0)>>)
    \/ \E g \in 1..MaxSharingGroups :
          /\ next_id.studies <= MaxLinkStudies
          /\ create_study(Token(1), g)
    \/ \E is_required \in RequiredFlags, free_text_required \in RequiredFlags :
          /\ next_id.post_response_questions <= MaxPostResponseQuestions + 1
          /\ create_post_response_question(Token(1), 1,
                 [QuestionRequest(NoId, "q", is_required, 1, NoList)
                     EXCEPT !.free_text_required = free_text_required])
    \/ \E p \in 1..2, is_required \in RequiredFlags, free_text_required \in RequiredFlags :
          update_post_response_question(Token(1), 1, p,
              [QuestionRequest(NoId, "q", is_required, 1, NoList)
                  EXCEPT !.free_text_required = free_text_required])

SpecRequired == Init /\ [][NextRequired]_vars

-----------------------------------------------------------------------------
(* Properties of the required questions.                                    *)

RequiredOps == {"create_post_response_question", "update_post_response_question"}

\* The scenario is an item of a group that has a study.
InSomeStudy(config_id) ==
    \E i \in DOMAIN scenario_group_items, st \in DOMAIN studies :
        /\ scenario_group_items[i].train_configuration_id = config_id
        /\ scenario_group_items[i].scenario_group_id = studies[st].scenario_group_id

\* The request of the reply asks for a required answer or required free
\* text, on a stored scenario and, for an update, a stored question of it.
AsksRequired(reply) ==
    /\ reply.op \in RequiredOps
    /\ reply.cred = Token(1)
    /\ reply.id \in DOMAIN train_configurations
    /\ reply.op = "update_post_response_question" =>
           /\ reply.id2 \in DOMAIN post_response_questions
           /\ post_response_questions[reply.id2].train_configuration_id = reply.id
    /\ reply.body.is_required \/ reply.body.free_text_required

RequiredOnlyInStudyStep ==
    AsksRequired(last') =>
        IF InSomeStudy(last'.id)
        THEN last'.status \in {200, 201}
        ELSE last'.status = 400 /\ UNCHANGED tables

\* C22: create_post_response_question and update_post_response_question
\* accept is_required or free_text_required exactly when the scenario is an
\* item of at least one group that has at least one study, however many; in
\* no study the request fails with 400 and nothing is created or changed.
C22_RequiredExactlyInStudy == [][RequiredOnlyInStudyStep]_vars


-----------------------------------------------------------------------------
(* Properties of the order of the tags.                                     *)

TagCreateOps == {"create_post_response_question", "create_pre_study_question"}

WithoutRepeats(L) == \A i, j \in 1..Len(L) : L[i] = L[j] => i = j

\* The position of a tag in L as the update paths count it: from 0.
PositionIn(L, tag_id) == (CHOOSE i \in 1..Len(L) : L[i] = tag_id) - 1

\* A create with a list without repeats gives every tag it assigns the
\* position of the tag in the list as its order.
CreateOrderPositionalStep ==
    (/\ last'.op \in TagCreateOps /\ last'.status = 201
     /\ last'.body.tag_ids # NoList /\ WithoutRepeats(last'.body.tag_ids)) =>
        \A a \in DOMAIN question_tag_assignments' \ DOMAIN question_tag_assignments :
            question_tag_assignments'[a].order =
                PositionIn(last'.body.tag_ids, question_tag_assignments'[a].tag_id)

\* C23: for every list L of tag ids without repeats,
\* create_post_response_question and create_pre_study_question give each
\* tag they assign an order equal to its position in L, the value the update
\* paths assign, so that an update of the new question with L changes no
\* order.
C23_CreateOrderPositional == [][CreateOrderPositionalStep]_vars


-----------------------------------------------------------------------------
(* Properties of a (scenario, session) pair with two responses.             *)

DuplicatedPair(config_id, session_id) ==
    /\ session_id \notin {NULL, ""}
    /\ Cardinality(ResponsesOfPair(user_responses, config_id, session_id)) >= 2

\* Slot p takes up a request in this step.
LooksUp(p) == inflight[p].pc # "looked" /\ inflight'[p] # inflight[p]

\* A request taken up for a pair that has two responses is refused, by the
\* lookup (500) unless its cell is refused before (422, 400), and stores
\* nothing.
DuplicatedPairRefusedStep ==
    \A p \in Slots :
        LET response == inflight'[p].response IN
        (LooksUp(p) /\ DuplicatedPair(response.train_configuration_id, response.user_session_id))
            => /\ inflight'[p].pc = "rejected"
               /\ inflight'[p].status \in {422, 400, 500}
               /\ InGrid(response) => inflight'[p].status = 500
               /\ last'.status = inflight'[p].status
               /\ UNCHANGED tables

\* The rows of a pair that has two responses stay; they stay as they are
\* unless a request that looked the pair up before is still to store.
DuplicatesStayStep ==
    \A c \in ConfigIds, sid \in SessionIds :
        DuplicatedPair(c, sid) =>
            /\ ResponsesOfPair(user_responses, c, sid) \subseteq ResponsesOfPair(user_responses', c, sid)
            /\ (\A p \in Slots : inflight[p].pc # "looked") =>
                   /\ ResponsesOfPair(user_responses', c, sid) = ResponsesOfPair(user_responses, c, sid)
                   /\ \A r \in ResponsesOfPair(user_responses, c, sid) :
                          user_responses'[r] = user_responses[r]

-----------------------------------------------------------------------------
(* Resizing: seat selections on scenario 1 while the scenario is updated to *)
(* a smaller and back to a larger grid.                                     *)

NextResize ==
    \/ /\ train_configurations = <<>>
       /\ create_train_configuration(Shape(2, 1, <<1, 1>>))
    \/ \E config \in ScenarioUpdates : update_train_configuration(1, config)
    \/ \E sid \in {NULL, "s1"}, choice \in Choices :
          LET response == UserResponseRequest(1, sid, choice) IN
          WithinResponseBound(response) /\ create_user_response(response)

SpecResize == Init /\ [][NextResize]_vars

\* C25: every stored response lies inside the grid of its scenario as it is
\* stored now (row < height and col < width), also after
\* update_train_configuration has changed the height or width of a scenario
\* that has responses.
C25_ResponsesInGrid ==
    \A r \in DOMAIN user_responses :
        /\ user_responses[r].train_configuration_id \in DOMAIN train_configurations
        /\ InGrid(user_responses[r])


\* C26: the creator of each study is the creator or a current editor of the
\* scenario group the study is bound to, after any sequence of create_study,
\* update_study, add_scenario_group_editor and remove_scenario_group_editor.
C26_StudyCreatorHasGroupAccess ==
    \A st \in DOMAIN studies :
        /\ studies[st].scenario_group_id \in DOMAIN scenario_groups
        /\ HasGroupAccess(studies[st].scenario_group_id, studies[st].created_by_user_id)


-----------------------------------------------------------------------------
(* Studies and the deletion of their scenario group.                        *)

\* Every study is bound to a stored group and every pre-study question link
\* to a stored study.
StudiesBoundToGroups ==
    /\ \A st \in DOMAIN studies : studies[st].scenario_group_id \in DOMAIN scenario_groups
    /\ \A q \in DOMAIN pre_study_questions : pre_study_questions[q].study_id \in DOMAIN studies

\* A delete of a group is carried out exactly for the creator of a stored
\* group, and then removes every study bound to the group, whoever created
\* it, with the pre-study question links of those studies; a refused delete
\* removes nothing.
StudyCascadeStep ==
    (last'.op = "delete_scenario_group") =>
        LET g == last'.id
            user == get_current_user(last'.cred)
            bound == {st \in DOMAIN studies : studies[st].scenario_group_id = g}
        IN
        IF user # NoId /\ g \in DOMAIN scenario_groups /\ scenario_groups[g].created_by_user_id = user
        THEN /\ last'.status = 204
             /\ studies' = Delete(studies, bound)
             /\ pre_study_questions' = Delete(pre_study_questions,
                    {q \in DOMAIN pre_study_questions : pre_study_questions[q].study_id \in bound})
        ELSE /\ last'.status # 204
             /\ UNCHANGED <<group_tables, study_tables>>

-----------------------------------------------------------------------------
(* Answers across scenarios: two scenarios, each with its default question  *)
(* (post-response question 1 on scenario 1, 2 on scenario 2), seat          *)
(* selections on either scenario, then answers to either question.          *)

CrossAnswerLists ==
    {<<QuestionResponse(1, "text", <<1>>)>>,
     <<QuestionResponse(2, "text", NoList)>>,
     <<QuestionResponse(1, NULL, NoList), QuestionResponse(2, NULL, <<1>>)>>}

NextCrossAnswers ==
    \/ /\ next_id.train_configurations <= MaxConfigs
       /\ create_train_configuration(Shape(2, 1, <<1, 1>>))
    \/ \E config_id \in 1..MaxConfigs, sid \in {"s1", "s2"} :
          LET response == UserResponseRequest(config_id, sid, Choice(0, 0, "seat", NULL, NULL)) IN
          /\ next_id.train_configurations > MaxConfigs
          /\ WithinResponseBound(response)
          /\ create_user_response(response)
    \/ \E response_id \in 1..MaxResponses, responses \in CrossAnswerLists :
          /\ next_id.train_configurations > MaxConfigs
          /\ next_id.question_responses + Len(responses) <= MaxAnswers + 1
          /\ submit_question_responses(response_id, responses)

SpecCrossAnswers == Init /\ [][NextCrossAnswers]_vars

\* C28: each stored answer joins a seat selection and a post-response
\* question of the same scenario: submit_question_responses never stores an
\* answer to a question of a scenario other than the one the seat selection
\* was made on.
C28_AnswersWithinScenario ==
    \A a \in DOMAIN question_responses :
        LET r == question_responses[a] IN
        /\ r.user_response_id \in DOMAIN user_responses
        /\ r.post_response_question_id \in DOMAIN post_response_questions
        /\ user_responses[r.user_response_id].train_configuration_id =
               post_response_questions[r.post_response_question_id].train_configuration_id


-----------------------------------------------------------------------------
(* Submissions are stored whole or not at all.                              *)

\* The positions of the request list that name a post-response question
\* that is not stored, or leave out the free text their question requires.
RefusedElements(responses) ==
    {i \in 1..Len(responses) :
        LET pid == responses[i].post_response_question_id IN
        \/ pid \notin DOMAIN post_response_questions
        \/ /\ post_response_questions[pid].free_text_required
           /\ responses[i].free_text_response \in {NULL, "", " "}}

\* A submission with a refused element fails and leaves the answers and
\* their selected tags as they were; any submission either stores a row for
\* every element of its list or stores nothing.
AllOrNothingStep ==
    last'.op = "submit_question_responses" =>
        LET responses == last'.body.responses
            added == DOMAIN question_responses' \ DOMAIN question_responses
        IN
        /\ RefusedElements(responses) # {} =>
               /\ last'.status # 200
               /\ UNCHANGED answer_tables
               /\ UNCHANGED tables
        /\ \/ last'.status = 200 /\ Cardinality(added) = Len(responses)
           \/ last'.status # 200 /\ UNCHANGED answer_tables

\* C29: submit_question_responses is all-or-nothing: when an element of the
\* list names a post-response question that does not exist, or leaves out
\* (empty or whitespace only) the free text its question requires, the
\* request fails and no answer or selected-tag row of the request is stored,
\* the rows of the valid elements before the failing one included.
C29_SubmissionAllOrNothing == [][AllOrNothingStep]_vars

\* A submission for a stored seat selection was refused at its second
\* element, after a first element that is valid and selects a tag.
C29_RefusedAfterValidElement ==
    /\ last.op = "submit_question_responses" /\ last.status \in {400, 404}
    /\ last.id \in DOMAIN user_responses
    /\ Len(last.body.responses) = 2
    /\ RefusedElements(last.body.responses) = {2}
    /\ ValidSelections(last.body.responses[1]) # {}


-----------------------------------------------------------------------------
(* The two reconciliations of a question's tags against a desired list.     *)

MaxDesired == 3   \* longest desired list of tag ids compared

\* Tags 1 and 2 are in the library (default tags), tag 99 is not.
DesiredTagLists == UNION {[1..n -> {1, 2, 99}] : n \in 0..MaxDesired}

\* The (tag, order) pairs of a question in a set of assignment rows.
OrderedTags(rows, question_id) ==
    {<<rows[a].tag_id, rows[a].order>> : a \in AssignmentsOfQuestion(rows, question_id)}

\* Both reconciliations fail, or both end with the same assigned tags, each
\* with the same order.
SameOutcome(post, pre, question_id) ==
    \/ ~post.ok /\ ~pre.ok
    \/ /\ post.ok /\ pre.ok
       /\ OrderedTags(post.rows, question_id) = OrderedTags(pre.rows, question_id)

\* C30: update_pre_study_question and update_post_response_question
\* reconcile alike: from the same current assignments of a question and the
\* same desired list of tag ids, lists with repeated and with unknown ids
\* included, both end with the same assigned tags and the same order for
\* each tag, or both fail.
C30_SameReconciliation ==
    \A question_id \in DOMAIN questions, L \in DesiredTagLists :
        SameOutcome(ReconcilePostResponseTags(question_tag_assignments,
                        next_id.question_tag_assignments, question_id, L),
                    ReconcilePreStudyTags(question_tag_assignments,
                        next_id.question_tag_assignments, question_id, L),
                    question_id)

=============================================================================
